---- MODULE Spec2Model ----
(***************************************************************************)
(* Model of the apptainer starter master (internal/app/starter/            *)
(* master_linux.go) and of the LUKS2 crypt layer (crypt package).          *)
(*                                                                         *)
(* Spec: the Master function, its three goroutines (createContainer,       *)
(* startContainer, the monitor closure), the stage-2 child on the other    *)
(* end of the master socket and the engine hooks, whose results are        *)
(* nondeterministic.                                                       *)
(*                                                                         *)
(* CryptSpec: concurrent calls of Open, CloseCryptDevice and               *)
(* EncryptFilesystem, each in a process of its own, sharing the            *)
(* /dev/mapper lock and the device-mapper table of one host.               *)
(***************************************************************************)
EXTENDS Integers, Naturals, Sequences, FiniteSets, TLC

\* ------------------------------------------------------------------ bounds
\* number of bytes stage-2 may write on the master socket in one run
MaxWrites == 2
\* number of calls into the crypt layer, which may run at the same time
NumProcs == 2

\* number of signals delivered to the master in one run
MaxSignals == 3
MaxClock == 3

\* ------------------------------------------------------- values and errors
Nil == "nil"
None == "none"
\* "no signal" and "no wait status yet"
NoSignal == 0
NoStatus == -1

ErrBadRPCSocket == "bad RPC socket file descriptor"
ErrCopySocket == "failed to copy unix socket descriptor"
ErrCreate == "container creation failed"
ErrBadMasterSocket == "bad master socket file descriptor"
ErrMasterConn == "failed to create master connection"
ErrReadMaster == "error while reading master socket data"
ErrPreStart == "pre start process failed"
ErrPostStart == "post start process failed"
ErrMonitor == "monitor container failed"
ErrHook == "error sent by the PreStartProcess hook"

\* bytes stage-2 may put on the master socket
Bytes == {"c", "f"}
EOF == "EOF"
ReadErr == "read error"

\* capacity of fatalChan
FatalChanCap == 1

\* exit code of sylog.Fatalf
FatalExitCode == 255

\* wait statuses a dead child can have: exit 0, 1, 255, SIGKILL, SIGSEGV+core
DeathStatuses == {0, 256, 65280, 9, 139}

\* syscall.WaitStatus accessors (mask 0x7F, stopped 0x7F, exited 0, shift 8)
Exited(st) == st % 128 = 0
Signaled(st) == (st % 128) # 127 /\ (st % 128) # 0
ExitStatus(st) == IF Exited(st) THEN (st \div 256) % 256 ELSE -1
Signal(st) == IF Signaled(st) THEN st % 128 ELSE -1

SignaledExitCode_NoOffset(s) == s
SignaledExitCode(s) == 128 + s

MainExitCode_IgnoreExited(st) ==
  IF Signaled(st) THEN SignaledExitCode(Signal(st)) ELSE 0
MainExitCode(st) ==
  IF Signaled(st) THEN SignaledExitCode(Signal(st))
  ELSE IF Exited(st) THEN ExitStatus(st)
  ELSE 0

VARIABLES
  hasPreStart,   \* the engine's Operations implement PreStartProcess
  status,        \* Master's local "status" (syscall.WaitStatus, as an integer)
  fatalChan,     \* buffered channel of errors
  fatal,         \* Master's local "fatal" (None before the receive)
  mainPc,        \* position of Master
  handlers,      \* signal disposition of the master: default / notify / reset
  exitCode,      \* Master's local "exitCode"
  raised,        \* signal the master raised on itself (NoSignal if none)
  procEnd,       \* how the master process ended: <<kind, value>>
  cleanup,       \* arguments and result of the CleanupContainer call
  createPc,      \* position of createContainer
  rpcConn,       \* master's RPC connection: none / open / closed
  startPc,       \* position of startContainer
  masterConn,    \* master's connection on the master socket: none / open / closed
  data0,         \* data[0] in startContainer
  monPc,         \* position of the monitor goroutine
  pend,          \* value each task is about to send on fatalChan
  s2Pc,          \* stage-2: setup / barrier / startproc / payload / dead
  sockBuf,       \* bytes written by stage-2, not yet read by the master
  sockClosed,    \* stage-2's end of the master socket is closed
  s2Writes,      \* number of bytes stage-2 has written
  childStatus,   \* wait status of the child once it is dead
  sentLog,       \* history: <<task, value>> of every completed channel send
  reads,         \* history: results of conn.Read in startContainer
  preCalls,      \* history: number of PreStartProcess calls
  postCalls,     \* history: number of PostStartProcess calls
  statusWrites   \* history: tasks that assigned "status"

masterVars == <<hasPreStart, status, fatalChan, fatal, mainPc, handlers,
                exitCode, raised, procEnd, cleanup, createPc, rpcConn,
                startPc, masterConn, data0, monPc, pend, s2Pc, sockBuf,
                sockClosed, s2Writes, childStatus, sentLog, reads, preCalls,
                postCalls, statusWrites>>

\* ---- state of the crypt layer: processes calling into the crypt package
VARIABLES
  cproc,          \* per call (one process each): the operation and its locals
  lockHolder,     \* process holding the exclusive lock on /dev/mapper (0: free)
  activeMappers,  \* names of the active device-mapper targets
  mapperNodes,    \* names whose /dev/mapper/<name> node exists
  lockOk,         \* lock.Exclusive("/dev/mapper") can succeed on this host
  binFound,       \* bin.FindBin finds a cryptsetup binary
  binOwnerRoot,   \* the cryptsetup binary is owned by uid 0
  cryptVersion    \* what "cryptsetup --version" reports: "2.x", "1.7.5", "fail"

cryptVars == <<cproc, lockHolder, activeMappers, mapperNodes, lockOk,
               binFound, binOwnerRoot, cryptVersion>>
\* the part of the host a run does not change
hostVars == <<lockOk, binFound, binOwnerRoot, cryptVersion>>

\* ---- state of the parts modelled on their own
VARIABLES
  signals,        \* Master's "signals" channel (capacity 2), oldest first
  received        \* history: signals delivered to the master process

VARIABLE
  enc             \* the size computations of one EncryptFilesystem call

VARIABLE
  cp              \* one call of copyDeviceContents: arguments, files, locals

VARIABLE
  info            \* one os.FileInfo, its rpc snapshot, the clock, ModTime results

VARIABLE
  orig            \* currentOriginalUser, the goroutines calling CurrentOriginal

unitVars == <<signals, received, enc, cp, info, orig>>

vars == <<masterVars, cryptVars, unitVars>>

Tasks == {"create", "start", "monitor", "hook"}

\* the master process is still running (os.Exit or a fatal signal ends
\* every goroutine)
MasterAlive == mainPc # "done"

MasterStart ==
  /\ hasPreStart \in BOOLEAN
  /\ status = 0
  /\ fatalChan = <<>>
  /\ fatal = None
  /\ mainPc = "notify"
  /\ handlers = "default"
  /\ exitCode = 0
  /\ raised = NoSignal
  /\ procEnd = <<"running", 0>>
  /\ cleanup = [state |-> "no", fatal |-> None, status |-> 0, err |-> None,
                statusWritten |-> FALSE]
  /\ createPc = "unborn"
  /\ rpcConn = "none"
  /\ startPc = "unborn"
  /\ masterConn = "none"
  /\ data0 = "0"
  /\ monPc = "unborn"
  /\ pend = [t \in Tasks |-> None]
  /\ s2Pc = "setup"
  /\ sockBuf = <<>>
  /\ sockClosed = FALSE
  /\ s2Writes = 0
  /\ childStatus = NoStatus
  /\ sentLog = <<>>
  /\ reads = <<>>
  /\ preCalls = 0
  /\ postCalls = 0
  /\ statusWrites = {}

\* ------------------------------------------------------------------ Master
mainVars == <<status, fatalChan, fatal, mainPc, handlers, exitCode, raised,
              procEnd, cleanup>>
createVars == <<createPc, rpcConn>>
startVars == <<startPc, masterConn, data0, reads, preCalls, postCalls>>
monVars == <<monPc, statusWrites>>
s2Vars == <<s2Pc, sockBuf, sockClosed, s2Writes, childStatus>>

\* signals := make(chan os.Signal, 2); signal.Notify(signals)
MainNotify ==
  /\ mainPc = "notify"
  /\ handlers' = "notify"
  /\ mainPc' = "go_create"
  /\ UNCHANGED <<unitVars, cryptVars, hasPreStart, status, fatalChan, fatal, exitCode, raised,
                 procEnd, cleanup, createVars, startVars, monVars, pend,
                 s2Vars, sentLog>>

\* go createContainer(...)
MainGoCreate ==
  /\ mainPc = "go_create"
  /\ createPc' = "open"
  /\ mainPc' = "go_start"
  /\ UNCHANGED <<unitVars, cryptVars, hasPreStart, status, fatalChan, fatal, handlers, exitCode,
                 raised, procEnd, cleanup, rpcConn, startVars, monVars, pend,
                 s2Vars, sentLog>>

\* go startContainer(...)
MainGoStart ==
  /\ mainPc = "go_start"
  /\ startPc' = "open"
  /\ mainPc' = "go_monitor"
  /\ UNCHANGED <<unitVars, cryptVars, hasPreStart, status, fatalChan, fatal, handlers, exitCode,
                 raised, procEnd, cleanup, createVars, masterConn, data0,
                 reads, preCalls, postCalls, monVars, pend, s2Vars, sentLog>>

\* go func() { status, err = e.MonitorContainer(...); fatalChan <- err }()
MainGoMonitor ==
  /\ mainPc = "go_monitor"
  /\ monPc' = "run"
  /\ mainPc' = "recv"
  /\ UNCHANGED <<unitVars, cryptVars, hasPreStart, status, fatalChan, fatal, handlers, exitCode,
                 raised, procEnd, cleanup, createVars, startVars,
                 statusWrites, pend, s2Vars, sentLog>>

\* fatal := <-fatalChan
MainRecv ==
  /\ mainPc = "recv"
  /\ Len(fatalChan) > 0
  /\ fatal' = Head(fatalChan)
  /\ fatalChan' = Tail(fatalChan)
  /\ mainPc' = "cleanup_call"
  /\ UNCHANGED <<unitVars, cryptVars, hasPreStart, status, handlers, exitCode, raised, procEnd,
                 cleanup, createVars, startVars, monVars, pend, s2Vars,
                 sentLog>>

\* e.CleanupContainer(ctx, fatal, status): the call, which reads "status"
MainCleanupBegin ==
  /\ mainPc = "cleanup_call"
  /\ cleanup' = [state |-> "running", fatal |-> fatal, status |-> status,
                 err |-> None, statusWritten |-> statusWrites # {}]
  /\ mainPc' = "cleanup"
  /\ UNCHANGED <<unitVars, cryptVars, hasPreStart, status, fatalChan, fatal, handlers, exitCode,
                 raised, procEnd, createVars, startVars, monVars, pend,
                 s2Vars, sentLog>>

\* MainCleanupEnd where a cleanup error becomes the fatal error of a run that
\* had none
MainCleanupEnd_Propagates ==
  /\ mainPc = "cleanup"
  /\ \E err \in {Nil, "container cleanup failed"} :
       /\ cleanup' = [cleanup EXCEPT !.state = "done", !.err = err]
       /\ fatal' = IF err # Nil /\ fatal = Nil THEN err ELSE fatal
  /\ mainPc' = "check_fatal"
  /\ UNCHANGED <<unitVars, cryptVars, hasPreStart, status, fatalChan, handlers, exitCode,
                 raised, procEnd, createVars, startVars, monVars, pend,
                 s2Vars, sentLog>>

\* CleanupContainer returns; an error is only logged
MainCleanupEnd ==
  /\ mainPc = "cleanup"
  /\ \E err \in {Nil, "container cleanup failed"} :
       cleanup' = [cleanup EXCEPT !.state = "done", !.err = err]
  /\ mainPc' = "check_fatal"
  /\ UNCHANGED <<unitVars, cryptVars, hasPreStart, status, fatalChan, fatal, handlers, exitCode,
                 raised, procEnd, createVars, startVars, monVars, pend,
                 s2Vars, sentLog>>

\* if fatal != nil { sylog.Fatalf("%s", fatal) }
MainCheckFatal_NoExit ==
  /\ mainPc = "check_fatal"
  /\ mainPc' = "reset"
  /\ UNCHANGED <<unitVars, cryptVars, hasPreStart, status, fatalChan, fatal, handlers, exitCode,
                 raised, procEnd, cleanup, createVars, startVars, monVars,
                 pend, s2Vars, sentLog>>
MainCheckFatal ==
  /\ mainPc = "check_fatal"
  /\ IF fatal # Nil
       THEN /\ procEnd' = <<"exit", FatalExitCode>>
            /\ mainPc' = "done"
       ELSE /\ mainPc' = "reset"
            /\ UNCHANGED procEnd
  /\ UNCHANGED <<unitVars, cryptVars, hasPreStart, status, fatalChan, fatal, handlers, exitCode,
                 raised, cleanup, createVars, startVars, monVars, pend,
                 s2Vars, sentLog>>

\* signal.Reset()
MainReset ==
  /\ mainPc = "reset"
  /\ handlers' = "reset"
  /\ mainPc' = "status"
  /\ UNCHANGED <<unitVars, cryptVars, hasPreStart, status, fatalChan, fatal, exitCode, raised,
                 procEnd, cleanup, createVars, startVars, monVars, pend,
                 s2Vars, sentLog>>

\* exitCode := 0; if status.Signaled() {...} else if status.Exited() {...}
MainStatus ==
  /\ mainPc = "status"
  /\ exitCode' = MainExitCode(status)
  /\ mainPc' = IF Signaled(status) THEN "raise" ELSE "exit"
  /\ UNCHANGED <<unitVars, cryptVars, hasPreStart, status, fatalChan, fatal, handlers, raised,
                 procEnd, cleanup, createVars, startVars, monVars, pend,
                 s2Vars, sentLog>>

\* mainthread.Execute(func() { signalutil.Raise(s) }): the signal either
\* terminates the master or does not
MainRaise ==
  /\ mainPc = "raise"
  /\ raised' = Signal(status)
  /\ \/ /\ procEnd' = <<"signal", Signal(status)>>
        /\ mainPc' = "done"
     \/ /\ mainPc' = "exit"
        /\ UNCHANGED procEnd
  /\ UNCHANGED <<unitVars, cryptVars, hasPreStart, status, fatalChan, fatal, handlers, exitCode,
                 cleanup, createVars, startVars, monVars, pend, s2Vars,
                 sentLog>>

\* os.Exit(exitCode)
MainExit ==
  /\ mainPc = "exit"
  /\ procEnd' = <<"exit", exitCode>>
  /\ mainPc' = "done"
  /\ UNCHANGED <<unitVars, cryptVars, hasPreStart, status, fatalChan, fatal, handlers, exitCode,
                 raised, cleanup, createVars, startVars, monVars, pend,
                 s2Vars, sentLog>>


\* ------------------------------------------------------- fatalChan <- value
\* a blocking send of task t's pending value on the buffered channel
Send(t) ==
  /\ MasterAlive
  /\ pend[t] # None
  /\ Len(fatalChan) < FatalChanCap
  /\ fatalChan' = Append(fatalChan, pend[t])
  /\ sentLog' = Append(sentLog, <<t, pend[t]>>)
  /\ pend' = [pend EXCEPT ![t] = None]

\* --------------------------------------------------------- createContainer
\* os.NewFile, net.FileConn, comm.Close
CreateOpen ==
  /\ MasterAlive
  /\ createPc = "open"
  /\ \/ /\ \E e \in {ErrBadRPCSocket, ErrCopySocket} :
             pend' = [pend EXCEPT !["create"] = e]
        /\ createPc' = "send"
        /\ UNCHANGED rpcConn
     \/ /\ rpcConn' = "open"
        /\ createPc' = "create"
        /\ UNCHANGED pend
  /\ UNCHANGED <<unitVars, cryptVars, hasPreStart, mainVars, startVars, monVars, s2Vars, sentLog>>

\* err = e.CreateContainer(...); on error send and return, else rpcConn.Close()
CreateReturn_CloseAlways ==
  /\ MasterAlive
  /\ createPc = "create"
  /\ rpcConn' = "closed"
  /\ \/ /\ pend' = [pend EXCEPT !["create"] = ErrCreate]
        /\ createPc' = "send"
     \/ /\ createPc' = "done"
        /\ UNCHANGED pend
  /\ UNCHANGED <<unitVars, cryptVars, hasPreStart, mainVars, startVars, monVars, s2Vars, sentLog>>
CreateReturn ==
  /\ MasterAlive
  /\ createPc = "create"
  /\ \/ /\ pend' = [pend EXCEPT !["create"] = ErrCreate]
        /\ createPc' = "send"
        /\ UNCHANGED rpcConn
     \/ /\ rpcConn' = "closed"
        /\ createPc' = "done"
        /\ UNCHANGED pend
  /\ UNCHANGED <<unitVars, cryptVars, hasPreStart, mainVars, startVars, monVars, s2Vars, sentLog>>

\* fatalChan <- fmt.Errorf(...); return
CreateSend ==
  /\ createPc = "send"
  /\ Send("create")
  /\ createPc' = "done"
  /\ UNCHANGED <<unitVars, cryptVars, hasPreStart, status, fatal, mainPc, handlers, exitCode,
                 raised, procEnd, cleanup, rpcConn, startVars, monVars,
                 s2Vars>>

\* ---------------------------------------------------------- startContainer
\* what conn.Read(data) can return now: the next byte, EOF once stage-2's end
\* is closed and nothing is buffered, or another error
ReadResults ==
  (IF sockBuf # <<>> THEN {Head(sockBuf)}
   ELSE IF sockClosed THEN {EOF} ELSE {}) \cup {ReadErr}

\* os.NewFile, net.FileConn, comm.Close, defer conn.Close()
StartOpen ==
  /\ MasterAlive
  /\ startPc = "open"
  /\ \/ /\ \E e \in {ErrBadMasterSocket, ErrMasterConn} :
             pend' = [pend EXCEPT !["start"] = e]
        /\ startPc' = "send"
        /\ UNCHANGED masterConn
     \/ /\ masterConn' = "open"
        /\ startPc' = IF hasPreStart THEN "read1" ELSE "read2"
        /\ UNCHANGED pend
  /\ UNCHANGED <<unitVars, cryptVars, hasPreStart, mainVars, createVars, data0, reads, preCalls,
                 postCalls, monVars, s2Vars, sentLog>>

\* the branches after the read of the PreStartProcess path: "error" sends on
\* fatalChan, "return" returns silently, "continue" goes on to PreStartProcess
Read1Verdict_EOFIsError(r) ==
  IF r \in {ReadErr, EOF} THEN "error"
  ELSE IF r = "f" THEN "return"
  ELSE "continue"
Read1Verdict(r) ==
  IF r = ReadErr THEN "error"
  ELSE IF r = EOF THEN "return"
  ELSE IF r = "f" THEN "return"
  ELSE "continue"

\* if obj, ok := e.Operations.(interface{ PreStartProcess }); ok { conn.Read ... }
StartRead1 ==
  /\ MasterAlive
  /\ startPc = "read1"
  /\ \E r \in ReadResults :
       /\ reads' = Append(reads, r)
       /\ sockBuf' = IF r \in Bytes THEN Tail(sockBuf) ELSE sockBuf
       /\ data0' = IF r \in Bytes THEN r ELSE data0
       /\ startPc' = CASE Read1Verdict(r) = "error" -> "send"
                       [] Read1Verdict(r) = "return" -> "done"
                       [] OTHER -> "precall"
       /\ pend' = IF Read1Verdict(r) = "error"
                    THEN [pend EXCEPT !["start"] = ErrReadMaster] ELSE pend
       /\ masterConn' = IF Read1Verdict(r) = "return" THEN "closed"
                        ELSE masterConn
  /\ UNCHANGED <<unitVars, cryptVars, hasPreStart, mainVars, createVars, preCalls, postCalls,
                 monVars, s2Pc, sockClosed, s2Writes, childStatus, sentLog>>

\* obj.PreStartProcess(ctx, containerPid, conn, fatalChan) is called; the hook
\* holds fatalChan and may start a sender of its own
StartPreBegin ==
  /\ MasterAlive
  /\ startPc = "precall"
  /\ preCalls' = preCalls + 1
  /\ startPc' = "prestart"
  /\ \E h \in {None, ErrHook} : pend' = [pend EXCEPT !["hook"] = h]
  /\ UNCHANGED <<unitVars, cryptVars, hasPreStart, mainVars, createVars, masterConn, data0, reads,
                 postCalls, monVars, s2Vars, sentLog>>

\* StartPreEnd without the "return" after the send of the error
StartPreEnd_NoReturn ==
  /\ MasterAlive
  /\ startPc = "prestart"
  /\ \/ /\ pend' = [pend EXCEPT !["start"] = ErrPreStart]
        /\ startPc' = "read2"
     \/ /\ startPc' = "read2"
        /\ UNCHANGED pend
  /\ UNCHANGED <<unitVars, cryptVars, hasPreStart, mainVars, createVars, masterConn, data0, reads,
                 preCalls, postCalls, monVars, s2Vars, sentLog>>

\* PreStartProcess returns
StartPreEnd ==
  /\ MasterAlive
  /\ startPc = "prestart"
  /\ \/ /\ pend' = [pend EXCEPT !["start"] = ErrPreStart]
        /\ startPc' = "send"
     \/ /\ startPc' = "read2"
        /\ UNCHANGED pend
  /\ UNCHANGED <<unitVars, cryptVars, hasPreStart, mainVars, createVars, masterConn, data0, reads,
                 preCalls, postCalls, monVars, s2Vars, sentLog>>

\* (err != nil && err != io.EOF) || data[0] == 'f', with d the value of
\* data[0] after the read
Read2Defers_EOFDefers(r, d) == r \in {ReadErr, EOF} \/ d = "f"
Read2Defers_OnlyErr(r, d) == r = ReadErr
Read2Defers(r, d) == r = ReadErr \/ d = "f"

\* _, err = conn.Read(data); if ... { return }
StartRead2 ==
  /\ MasterAlive
  /\ startPc = "read2"
  /\ \E r \in ReadResults :
       LET d == IF r \in Bytes THEN r ELSE data0 IN
       /\ reads' = Append(reads, r)
       /\ sockBuf' = IF r \in Bytes THEN Tail(sockBuf) ELSE sockBuf
       /\ data0' = d
       /\ startPc' = IF Read2Defers(r, d) THEN "done" ELSE "postcall"
       /\ masterConn' = IF Read2Defers(r, d) THEN "closed" ELSE masterConn
  /\ UNCHANGED <<unitVars, cryptVars, hasPreStart, mainVars, createVars, preCalls, postCalls,
                 monVars, pend, s2Pc, sockClosed, s2Writes, childStatus,
                 sentLog>>

\* e.PostStartProcess(ctx, containerPid) is called
StartPostBegin ==
  /\ MasterAlive
  /\ startPc = "postcall"
  /\ postCalls' = postCalls + 1
  /\ startPc' = "poststart"
  /\ UNCHANGED <<unitVars, cryptVars, hasPreStart, mainVars, createVars, masterConn, data0, reads,
                 preCalls, monVars, pend, s2Vars, sentLog>>

\* PostStartProcess returns
StartPostEnd ==
  /\ MasterAlive
  /\ startPc = "poststart"
  /\ \/ /\ pend' = [pend EXCEPT !["start"] = ErrPostStart]
        /\ startPc' = "send"
        /\ UNCHANGED masterConn
     \/ /\ startPc' = "done"
        /\ masterConn' = "closed"
        /\ UNCHANGED pend
  /\ UNCHANGED <<unitVars, cryptVars, hasPreStart, mainVars, createVars, data0, reads, preCalls,
                 postCalls, monVars, s2Vars, sentLog>>

\* fatalChan <- fmt.Errorf(...); return (the deferred conn.Close() runs)
StartSend ==
  /\ startPc = "send"
  /\ Send("start")
  /\ startPc' = "done"
  /\ masterConn' = IF masterConn = "open" THEN "closed" ELSE masterConn
  /\ UNCHANGED <<unitVars, cryptVars, hasPreStart, status, fatal, mainPc, handlers, exitCode,
                 raised, procEnd, cleanup, createVars, data0, reads, preCalls,
                 postCalls, monVars, s2Vars>>

\* a send on fatalChan made by the PreStartProcess hook's own goroutine
HookSend ==
  /\ Send("hook")
  /\ UNCHANGED <<unitVars, cryptVars, hasPreStart, status, fatal, mainPc, handlers, exitCode,
                 raised, procEnd, cleanup, createVars, startVars, monVars,
                 s2Vars>>

\* ----------------------------------------------------------------- monitor
\* status, err = e.MonitorContainer(containerPid, signals): the wait status
\* of the dead child and no error, or an error
MonReturn ==
  /\ MasterAlive
  /\ monPc = "run"
  /\ \/ /\ s2Pc = "dead"
        /\ status' = childStatus
        /\ pend' = [pend EXCEPT !["monitor"] = Nil]
     \/ /\ status' \in {0} \cup (IF s2Pc = "dead" THEN {childStatus} ELSE {})
        /\ pend' = [pend EXCEPT !["monitor"] = ErrMonitor]
  /\ statusWrites' = statusWrites \cup {"monitor"}
  /\ monPc' = "send"
  /\ UNCHANGED <<unitVars, cryptVars, hasPreStart, fatalChan, fatal, mainPc, handlers, exitCode,
                 raised, procEnd, cleanup, createVars, startVars, s2Vars,
                 sentLog>>

\* MonSend as "if err != nil { fatalChan <- err }"
MonSend_OnlyErr ==
  /\ monPc = "send"
  /\ IF pend["monitor"] = Nil
       THEN /\ MasterAlive
            /\ pend' = [pend EXCEPT !["monitor"] = None]
            /\ UNCHANGED <<fatalChan, sentLog>>
       ELSE Send("monitor")
  /\ monPc' = "done"
  /\ UNCHANGED <<unitVars, cryptVars, hasPreStart, status, fatal, mainPc, handlers, exitCode,
                 raised, procEnd, cleanup, createVars, startVars,
                 statusWrites, s2Vars>>

\* fatalChan <- err
MonSend ==
  /\ monPc = "send"
  /\ Send("monitor")
  /\ monPc' = "done"
  /\ UNCHANGED <<unitVars, cryptVars, hasPreStart, status, fatal, mainPc, handlers, exitCode,
                 raised, procEnd, cleanup, createVars, startVars,
                 statusWrites, s2Vars>>

\* ----------------------------------------------------------------- stage-2
\* stage-2 writes a byte on the master socket: the start barrier first, which
\* it writes only once container creation has completed
S2Write ==
  /\ s2Pc \in {"setup", "barrier", "startproc"}
  /\ s2Pc = "setup" => createPc \in {"send", "done"}
  /\ s2Writes < MaxWrites
  /\ \E b \in Bytes : sockBuf' = Append(sockBuf, b)
  /\ s2Writes' = s2Writes + 1
  /\ s2Pc' = IF s2Pc = "setup" THEN "barrier" ELSE s2Pc
  /\ UNCHANGED <<unitVars, cryptVars, hasPreStart, mainVars, createVars, startVars, monVars, pend,
                 sockClosed, childStatus, sentLog>>

\* stage-2 calls StartProcess
S2StartProcess ==
  /\ s2Pc = "barrier"
  /\ s2Pc' = "startproc"
  /\ UNCHANGED <<unitVars, cryptVars, hasPreStart, mainVars, createVars, startVars, monVars, pend,
                 sockBuf, sockClosed, s2Writes, childStatus, sentLog>>

\* StartProcess execs the payload, which closes the master socket
S2Exec ==
  /\ s2Pc = "startproc"
  /\ s2Pc' = "payload"
  /\ sockClosed' = TRUE
  /\ UNCHANGED <<unitVars, cryptVars, hasPreStart, mainVars, createVars, startVars, monVars, pend,
                 sockBuf, s2Writes, childStatus, sentLog>>

\* the child exits or is killed
S2Die ==
  /\ s2Pc # "dead"
  /\ s2Pc' = "dead"
  /\ sockClosed' = TRUE
  /\ childStatus' \in DeathStatuses
  /\ UNCHANGED <<unitVars, cryptVars, hasPreStart, mainVars, createVars, startVars, monVars, pend,
                 sockBuf, s2Writes, sentLog>>

\* ============================================================ crypt layer
Procs == 1..NumProcs

\* mapper names getNextAvailableCryptDevice can draw (draws may collide)
Names == {"uuid-a", "uuid-b"}

\* maxRetries := 3
MaxRetries == 3

ErrUnsupportedCryptsetupVersion ==
  "installed version of cryptsetup is not supported, >=2.0.0 required"
ErrInvalidPassphrase == "no key available with this passphrase"
ErrLock == "unable to acquire lock on /dev/mapper"
ErrFindBin == "cryptsetup not found"
ErrNotRoot == "cryptsetup must be owned by root"
ErrNextDevice == "while getting next device"
ErrOpenFailed == "cryptsetup open failed"
ErrOpenExhausted == "unable to open crypt device"
ErrNoShow == "device did not show up"
ErrStat == "stat of the mapper node failed"
ErrVersionRun == "failed to run cryptsetup --version"
ErrCloseFailed == "cryptsetup close failed"
ErrPrepare == "unable to prepare the temporary crypt file"
ErrLoop == "failed to attach image"
ErrFormat == "unable to format crypt device"
ErrCopy == "unable to copy the device contents"

\* locals of a call that has not started; tried records the names of the
\* attempts that failed with "Device already exists"
IdleRec ==
  [op |-> "idle", pc |-> "idle", nested |-> FALSE, name |-> "", arg |-> "",
   i |-> 0, attempt |-> 0, slept |-> 0, exec |-> "none", out |-> "none",
   loop |-> FALSE, retName |-> "", err |-> None, tried |-> {}]

CryptQuiet ==
  /\ cproc = [p \in Procs |-> IdleRec]
  /\ lockHolder = 0
  /\ activeMappers = {}
  /\ mapperNodes = {}
  /\ lockOk = TRUE
  /\ binFound = TRUE
  /\ binOwnerRoot = TRUE
  /\ cryptVersion = "2.x"

CryptStart ==
  /\ cproc = [p \in Procs |-> IdleRec]
  /\ lockHolder = 0
  /\ activeMappers \in SUBSET Names
  /\ mapperNodes = activeMappers
  /\ lockOk \in BOOLEAN
  /\ binFound \in BOOLEAN
  /\ binOwnerRoot \in BOOLEAN
  /\ cryptVersion \in {"2.x", "1.7.5", "fail"}

\* checkCryptsetupVersion that accepts whatever version is printed
checkCryptsetupVersion_AnyVersion(v) ==
  IF v = "fail" THEN ErrVersionRun
  ELSE Nil

\* checkCryptsetupVersion: the output of --version decides
checkCryptsetupVersion(v) ==
  IF v = "fail" THEN ErrVersionRun
  ELSE IF v # "2.x" THEN ErrUnsupportedCryptsetupVersion
  ELSE Nil

\* a delay that grows by 100 ms each attempt instead of doubling
DelayNextMs_NoDoubling(attempt) == 100 * (attempt + 1)
\* delayNext := 100 * (1 << attempt) * time.Millisecond, in milliseconds
DelayNextMs(attempt) == 100 * (2 ^ attempt)
\* delaySoFar := delayNext - 1 (one nanosecond less), as <<ms, ns>>
DelaySoFar(attempt) == <<DelayNextMs(attempt) - 1, 999999>>
\* delaySoFar >= 25500*time.Millisecond
PollTimedOut(attempt) == DelaySoFar(attempt)[1] >= 25500

\* call p's locals become r
Local(p, r) ==
  /\ cproc' = [cproc EXCEPT ![p] = r]
  /\ UNCHANGED <<hostVars, masterVars, unitVars>>

\* call p, an operation op, returns (nm, e) to its caller outside the layer;
\* a loop device it attached stays attached (nothing in the layer detaches it)
Return(p, op, nm, e) ==
  Local(p, [IdleRec EXCEPT !.op = op, !.pc = "done", !.retName = nm,
                           !.err = e, !.loop = cproc[p].loop])

\* --------------------------------------------------------------------- Open
\* Open(key, path) is called
CallOpen(p) ==
  /\ cproc[p].pc = "idle"
  /\ Local(p, [IdleRec EXCEPT !.op = "Open", !.pc = "o_lock"])
  /\ UNCHANGED <<lockHolder, activeMappers, mapperNodes>>

\* OpenReturn without the deferred lock.Release
OpenReturn_NoRelease(p, nm, e, held) ==
  /\ lockHolder' = lockHolder
  /\ IF ~cproc[p].nested THEN Return(p, "Open", nm, e)
     ELSE IF e # Nil THEN Return(p, "Encrypt", "", e)
     ELSE Local(p, [IdleRec EXCEPT !.op = "Encrypt", !.pc = "e_copy",
                                   !.loop = TRUE, !.arg = nm])

\* Open returns (nm, e): the deferred lock.Release runs if the lock was taken.
\* Called by EncryptFilesystem (nextCrypt, err := crypt.Open(key, loop)), an
\* error makes EncryptFilesystem return it, and success leads to the copy
OpenReturn(p, nm, e, held) ==
  /\ lockHolder' = IF held THEN 0 ELSE lockHolder
  /\ IF ~cproc[p].nested THEN Return(p, "Open", nm, e)
     ELSE IF e # Nil THEN Return(p, "Encrypt", "", e)
     ELSE Local(p, [IdleRec EXCEPT !.op = "Encrypt", !.pc = "e_copy",
                                   !.loop = TRUE, !.arg = nm])

\* fd, err := lock.Exclusive("/dev/mapper"); defer lock.Release(fd);
\* bin.FindBin("cryptsetup"); fs.IsOwner(cryptsetup, 0)
OpenLock(p) ==
  /\ cproc[p].pc = "o_lock"
  /\ \/ /\ ~lockOk
        /\ OpenReturn(p, "", ErrLock, FALSE)
     \/ /\ lockOk /\ lockHolder = 0 /\ ~binFound
        /\ OpenReturn(p, "", ErrFindBin, TRUE)
     \/ /\ lockOk /\ lockHolder = 0 /\ binFound /\ ~binOwnerRoot
        /\ OpenReturn(p, "", ErrNotRoot, TRUE)
     \/ /\ lockOk /\ lockHolder = 0 /\ binFound /\ binOwnerRoot
        /\ lockHolder' = p
        /\ Local(p, [cproc[p] EXCEPT !.pc = "o_loop", !.i = 0])
  /\ UNCHANGED <<activeMappers, mapperNodes>>

\* for i := 0; i < maxRetries; i++ { nextCrypt, err :=
\* getNextAvailableCryptDevice(); ...; cmd.CombinedOutput() starts
OpenLoop(p) ==
  /\ cproc[p].pc = "o_loop"
  /\ IF cproc[p].i < MaxRetries
       THEN \/ OpenReturn(p, "", ErrNextDevice, TRUE)
            \/ /\ \E n \in Names :
                    Local(p, [cproc[p] EXCEPT !.pc = "o_wait", !.name = n,
                                              !.exec = "open"])
               /\ UNCHANGED lockHolder
       ELSE OpenReturn(p, "", ErrOpenExhausted, TRUE)
  /\ UNCHANGED <<activeMappers, mapperNodes>>

\* OpenExecEnd where a failed open with "Device already exists" is taken for a
\* success (no continue)
OpenExecEnd_NoContinue(p) ==
  /\ cproc[p].pc = "o_wait"
  /\ \/ /\ cryptVersion = "2.x"
        /\ activeMappers' = activeMappers \cup {cproc[p].name}
        /\ Local(p, [cproc[p] EXCEPT !.pc = "o_poll", !.exec = "none",
                                     !.attempt = 0, !.slept = 0])
     \/ /\ cproc[p].name \in activeMappers
        /\ Local(p, [cproc[p] EXCEPT !.pc = "o_loop", !.exec = "none",
                                     !.name = "", !.i = @ + 1,
                                     !.tried = @ \cup {cproc[p].name}])
        /\ UNCHANGED activeMappers
     \/ /\ \E o \in {"nokey", "other"} :
             Local(p, [cproc[p] EXCEPT !.pc = "o_verwait", !.exec = "version",
                                       !.out = o])
        /\ UNCHANGED activeMappers
  /\ UNCHANGED <<lockHolder, mapperNodes>>

\* cryptsetup open ends: it activates the mapper, or fails with "Device
\* already exists" (the name is active: continue), or with "No key available"
\* or something else (checkCryptsetupVersion runs cryptsetup --version)
OpenExecEnd(p) ==
  /\ cproc[p].pc = "o_wait"
  /\ \/ /\ cproc[p].name \notin activeMappers
        /\ cryptVersion = "2.x"
        /\ activeMappers' = activeMappers \cup {cproc[p].name}
        /\ Local(p, [cproc[p] EXCEPT !.pc = "o_poll", !.exec = "none",
                                     !.attempt = 0, !.slept = 0])
     \/ /\ cproc[p].name \in activeMappers
        /\ Local(p, [cproc[p] EXCEPT !.pc = "o_loop", !.exec = "none",
                                     !.name = "", !.i = @ + 1,
                                     !.tried = @ \cup {cproc[p].name}])
        /\ UNCHANGED activeMappers
     \/ /\ \E o \in {"nokey", "other"} :
             Local(p, [cproc[p] EXCEPT !.pc = "o_verwait", !.exec = "version",
                                       !.out = o])
        /\ UNCHANGED activeMappers
  /\ UNCHANGED <<lockHolder, mapperNodes>>

\* OpenFailure that looks at "No key available" before the version
OpenFailure_KeyFirst(verr, out) ==
  IF out = "nokey" THEN ErrInvalidPassphrase
  ELSE IF verr = ErrUnsupportedCryptsetupVersion THEN ErrUnsupportedCryptsetupVersion
  ELSE ErrOpenFailed

\* the error Open returns after a failed open that was not a name collision
OpenFailure(verr, out) ==
  IF verr = ErrUnsupportedCryptsetupVersion THEN ErrUnsupportedCryptsetupVersion
  ELSE IF out = "nokey" THEN ErrInvalidPassphrase
  ELSE ErrOpenFailed

\* cryptsetup --version ends and Open returns the error
OpenVersionEnd(p) ==
  /\ cproc[p].pc = "o_verwait"
  /\ OpenReturn(p, "", OpenFailure(checkCryptsetupVersion(cryptVersion),
                                   cproc[p].out), TRUE)
  /\ UNCHANGED <<activeMappers, mapperNodes>>

\* one round of the polling loop: os.Stat("/dev/mapper/" + nextCrypt); the
\* node is there (return nextCrypt, nil), stat fails otherwise, the cap is
\* reached, or time.Sleep(delayNext) and the next attempt
OpenPoll(p) ==
  /\ cproc[p].pc = "o_poll"
  /\ \/ /\ cproc[p].name \in mapperNodes
        /\ OpenReturn(p, cproc[p].name, Nil, TRUE)
     \/ OpenReturn(p, "", ErrStat, TRUE)
     \/ /\ cproc[p].name \notin mapperNodes
        /\ IF PollTimedOut(cproc[p].attempt)
             THEN OpenReturn(p, "", ErrNoShow, TRUE)
             ELSE /\ Local(p, [cproc[p] EXCEPT
                                 !.slept = @ + DelayNextMs(cproc[p].attempt),
                                 !.attempt = @ + 1])
                  /\ UNCHANGED lockHolder
  /\ UNCHANGED <<activeMappers, mapperNodes>>

\* udev creates the /dev/mapper node of an active mapper
NodeAppears ==
  /\ \E n \in activeMappers \ mapperNodes : mapperNodes' = mapperNodes \cup {n}
  /\ UNCHANGED <<cproc, lockHolder, activeMappers, hostVars, masterVars,
               unitVars>>

\* --------------------------------------------------------- CloseCryptDevice
\* CloseCryptDevice(path) is called: bin.FindBin("cryptsetup");
\* fs.IsOwner(cryptsetup, 0)
CallClose(p) ==
  /\ cproc[p].pc = "idle"
  /\ \/ /\ ~binFound
        /\ Return(p, "Close", "", ErrFindBin)
     \/ /\ binFound /\ ~binOwnerRoot
        /\ Return(p, "Close", "", ErrNotRoot)
     \/ /\ binFound /\ binOwnerRoot
        /\ \E n \in Names :
             Local(p, [IdleRec EXCEPT !.op = "Close", !.pc = "c_lock",
                                      !.arg = n])
  /\ UNCHANGED <<lockHolder, activeMappers, mapperNodes>>

\* fd, err := lock.Exclusive("/dev/mapper"); defer lock.Release(fd);
\* cmd := exec.Command(cryptsetup, "close", path); cmd.Run() starts
CloseLock(p) ==
  /\ cproc[p].pc = "c_lock"
  /\ \/ /\ lockOk
        /\ lockHolder = 0
        /\ lockHolder' = p
        /\ Local(p, [cproc[p] EXCEPT !.pc = "c_wait", !.exec = "close"])
     \/ /\ ~lockOk
        /\ Return(p, "Close", "", ErrLock)
        /\ UNCHANGED lockHolder
  /\ UNCHANGED <<activeMappers, mapperNodes>>

\* cryptsetup close ends; CloseCryptDevice returns and releases the lock
CloseExecEnd(p) ==
  /\ cproc[p].pc = "c_wait"
  /\ \/ /\ cproc[p].arg \in activeMappers
        /\ activeMappers' = activeMappers \ {cproc[p].arg}
        /\ mapperNodes' = mapperNodes \ {cproc[p].arg}
        /\ Return(p, "Close", "", Nil)
     \/ /\ Return(p, "Close", "", ErrCloseFailed)
        /\ UNCHANGED <<activeMappers, mapperNodes>>
  /\ lockHolder' = 0

\* -------------------------------------------------------- EncryptFilesystem
\* EncryptFilesystem(path, key, tempdir) is called: os.Stat, os.CreateTemp,
\* os.Truncate, safecast.ToUint64
CallEncrypt(p) ==
  /\ cproc[p].pc = "idle"
  /\ \/ Return(p, "Encrypt", "", ErrPrepare)
     \/ Local(p, [IdleRec EXCEPT !.op = "Encrypt", !.pc = "e_loop"])
  /\ UNCHANGED <<lockHolder, activeMappers, mapperNodes>>

\* EncCreateLoop that attaches no loop device yet
EncCreateLoop_NoAttach(p) ==
  /\ cproc[p].pc = "e_loop"
  /\ \/ Return(p, "Encrypt", "", ErrLoop)
     \/ Local(p, [cproc[p] EXCEPT !.pc = "e_findbin"])
  /\ UNCHANGED <<lockHolder, activeMappers, mapperNodes>>

\* loop, err := createLoop(cryptF.Name(), 0, uintDevSize)
EncCreateLoop(p) ==
  /\ cproc[p].pc = "e_loop"
  /\ \/ Return(p, "Encrypt", "", ErrLoop)
     \/ Local(p, [cproc[p] EXCEPT !.pc = "e_findbin", !.loop = TRUE])
  /\ UNCHANGED <<lockHolder, activeMappers, mapperNodes>>

\* EncFormatStart without the fs.IsOwner test
EncFormatStart_NoOwnerCheck(p) ==
  /\ cproc[p].pc = "e_findbin"
  /\ \/ /\ ~binFound
        /\ Return(p, "Encrypt", "", ErrFindBin)
     \/ /\ binFound
        /\ Local(p, [cproc[p] EXCEPT !.pc = "e_fmtwait",
                                     !.exec = "luksFormat"])
  /\ UNCHANGED <<lockHolder, activeMappers, mapperNodes>>

\* bin.FindBin("cryptsetup"); fs.IsOwner(cryptsetup, 0);
\* cmd := exec.Command(cryptsetup, "luksFormat", ...); cmd.CombinedOutput() starts
EncFormatStart(p) ==
  /\ cproc[p].pc = "e_findbin"
  /\ \/ /\ ~binFound
        /\ Return(p, "Encrypt", "", ErrFindBin)
     \/ /\ binFound /\ ~binOwnerRoot
        /\ Return(p, "Encrypt", "", ErrNotRoot)
     \/ /\ binFound /\ binOwnerRoot
        /\ Local(p, [cproc[p] EXCEPT !.pc = "e_fmtwait",
                                     !.exec = "luksFormat"])
  /\ UNCHANGED <<lockHolder, activeMappers, mapperNodes>>

\* luksFormat ends: on failure checkCryptsetupVersion runs --version, on
\* success crypt.Open(key, loop) is called
EncFormatEnd(p) ==
  /\ cproc[p].pc = "e_fmtwait"
  /\ \/ /\ cryptVersion = "2.x"
        /\ Local(p, [cproc[p] EXCEPT !.pc = "o_lock", !.exec = "none",
                                     !.nested = TRUE])
     \/ Local(p, [cproc[p] EXCEPT !.pc = "e_verwait", !.exec = "version"])
  /\ UNCHANGED <<lockHolder, activeMappers, mapperNodes>>

\* the error EncryptFilesystem returns after a failed luksFormat
FormatFailure(verr) ==
  IF verr = ErrUnsupportedCryptsetupVersion THEN ErrUnsupportedCryptsetupVersion
  ELSE ErrFormat

\* cryptsetup --version ends and EncryptFilesystem returns the error
EncVersionEnd(p) ==
  /\ cproc[p].pc = "e_verwait"
  /\ Return(p, "Encrypt", "",
            FormatFailure(checkCryptsetupVersion(cryptVersion)))
  /\ UNCHANGED <<lockHolder, activeMappers, mapperNodes>>

\* err = copyDeviceContents(path, "/dev/mapper/"+nextCrypt, fSize);
\* cmd = exec.Command(cryptsetup, "close", nextCrypt); cmd.Run() starts
EncCopy(p) ==
  /\ cproc[p].pc = "e_copy"
  /\ \/ Return(p, "Encrypt", "", ErrCopy)
     \/ Local(p, [cproc[p] EXCEPT !.pc = "e_closewait", !.exec = "close"])
  /\ UNCHANGED <<lockHolder, activeMappers, mapperNodes>>

\* EncCloseEnd that returns cryptF.Name() with the error of a failed close
EncCloseEnd_PathOnError(p) ==
  /\ cproc[p].pc = "e_closewait"
  /\ \/ /\ cproc[p].arg \in activeMappers
        /\ activeMappers' = activeMappers \ {cproc[p].arg}
        /\ mapperNodes' = mapperNodes \ {cproc[p].arg}
        /\ Return(p, "Encrypt", "crypt-file", Nil)
     \/ /\ Return(p, "Encrypt", "crypt-file", ErrCloseFailed)
        /\ UNCHANGED <<activeMappers, mapperNodes>>
  /\ UNCHANGED lockHolder

\* cryptsetup close ends; EncryptFilesystem returns cryptF.Name() or the error
EncCloseEnd(p) ==
  /\ cproc[p].pc = "e_closewait"
  /\ \/ /\ cproc[p].arg \in activeMappers
        /\ activeMappers' = activeMappers \ {cproc[p].arg}
        /\ mapperNodes' = mapperNodes \ {cproc[p].arg}
        /\ Return(p, "Encrypt", "crypt-file", Nil)
     \/ /\ Return(p, "Encrypt", "", ErrCloseFailed)
        /\ UNCHANGED <<activeMappers, mapperNodes>>
  /\ UNCHANGED lockHolder

CryptNext ==
  \/ \E p \in Procs : CallOpen(p)
  \/ \E p \in Procs : OpenLock(p)
  \/ \E p \in Procs : OpenLoop(p)
  \/ \E p \in Procs : OpenExecEnd(p)
  \/ \E p \in Procs : OpenVersionEnd(p)
  \/ \E p \in Procs : OpenPoll(p)
  \/ NodeAppears
  \/ \E p \in Procs : CallClose(p)
  \/ \E p \in Procs : CloseLock(p)
  \/ \E p \in Procs : CloseExecEnd(p)
  \/ \E p \in Procs : CallEncrypt(p)
  \/ \E p \in Procs : EncCreateLoop(p)
  \/ \E p \in Procs : EncFormatStart(p)
  \/ \E p \in Procs : EncFormatEnd(p)
  \/ \E p \in Procs : EncVersionEnd(p)
  \/ \E p \in Procs : EncCopy(p)
  \/ \E p \in Procs : EncCloseEnd(p)

\* ======================================================== signal routing
\* signals := make(chan os.Signal, 2)
SignalsCap == 2
SIGTERM == "SIGTERM"
SIGCHLD == "SIGCHLD"
SIGURG == "SIGURG"
\* signals the master process may be sent
SignalSet == {SIGTERM, SIGCHLD, SIGURG}
\* signals whose default action terminates the process
DefaultTerminates(sig) == sig = SIGTERM

\* a handler that leaves SIGURG out
Relayed_ExceptURG(sig) == sig # SIGURG
\* what signal.Notify(signals), called with no signal list, relays
Relayed(sig) == TRUE

\* the kernel delivers a signal to the master: under signal.Notify the
\* runtime sends it on the channel without blocking (it is dropped when the
\* channel is full); before Notify the default action applies
SigDeliver ==
  /\ MasterAlive
  /\ Len(received) < MaxSignals
  /\ \E sig \in SignalSet :
       /\ received' = Append(received, sig)
       /\ UNCHANGED <<enc, cp, info, orig>>
       /\ IF handlers = "notify"
            THEN /\ signals' = IF Relayed(sig) /\ Len(signals) < SignalsCap
                                 THEN Append(signals, sig)
                                 ELSE signals
                 /\ UNCHANGED <<mainPc, procEnd>>
            ELSE /\ UNCHANGED signals
                 /\ IF DefaultTerminates(sig)
                      THEN /\ procEnd' = <<"signal", sig>>
                           /\ mainPc' = "done"
                      ELSE UNCHANGED <<mainPc, procEnd>>
  /\ UNCHANGED <<cryptVars, hasPreStart, status, fatalChan, fatal, handlers,
                 exitCode, raised, cleanup, createVars, startVars, monVars,
                 pend, s2Vars, sentLog>>

\* MonitorContainer takes the oldest queued signal from the channel
MonTakeSignal ==
  /\ MasterAlive
  /\ monPc = "run"
  /\ Len(signals) > 0
  /\ signals' = Tail(signals)
  /\ UNCHANGED <<received, enc, cp, info, orig, masterVars, cryptVars>>

\* ============================================ sizes in EncryptFilesystem
\* 16*1024*1024, the over-allocation for the LUKS header
LuksOverhead == 16 * 1024 * 1024
\* An int64 is kept as its 64 bits in three limbs <<top, mid, lo>> of 16, 24
\* and 24 bits; it is negative when its top bit is set.
LimbBase == LuksOverhead
TopBase == 2 ^ 16
Negative(x) == x[1] >= TopBase \div 2
\* int64 addition (wraps around)
Add64(x, y) ==
  LET lo == x[3] + y[3]
      mid == x[2] + y[2] + (lo \div LimbBase)
      top == x[1] + y[1] + (mid \div LimbBase)
  IN  <<top % TopBase, mid % LimbBase, lo % LimbBase>>
Zero64 == <<0, 0, 0>>
\* 16 MiB as an int64
Overhead64 == <<0, 1, 0>>
\* sizes f.Size() may report: small, around the limb borders, up to 2^63 - 1
FileSizes ==
  {<<t, m, l>> : t \in {0, 1, (TopBase \div 2) - 1},
                 m \in {0, 5, LimbBase - 2, LimbBase - 1},
                 l \in {0, 1, LimbBase - 1}}

ErrStatImage == "failed getting size of the image"
ErrCreateTemp == "os.CreateTemp failed"
ErrTruncate == "os.Truncate failed"
ErrSafecast == "safecast.ToUint64 failed"

\* devSize := fSize + 16*1024*1024
DevSize_NoOverhead(fSize) == fSize
DevSize(fSize) == Add64(fSize, Overhead64)

EncIdle ==
  [pc |-> "stat", fSize |-> Zero64, devSize |-> Zero64, fileSize |-> Zero64,
   truncated |-> FALSE, loopOffset |-> Zero64, loopSize |-> Zero64,
   loop |-> FALSE, copySize |-> Zero64, copied |-> FALSE, err |-> None]

EncStep(r) ==
  enc' = r
  /\ UNCHANGED <<signals, received, cp, info, orig, masterVars, cryptVars>>

\* f, err := os.Stat(path); fSize := f.Size(); os.CreateTemp(tempdir, "crypt-")
SizeStat ==
  /\ enc.pc = "stat"
  /\ \/ EncStep([enc EXCEPT !.pc = "done", !.err = ErrStatImage])
     \/ EncStep([enc EXCEPT !.pc = "done", !.err = ErrCreateTemp])
     \/ \E sz \in FileSizes :
          EncStep([enc EXCEPT !.pc = "truncate", !.fSize = sz,
                              !.devSize = DevSize(sz)])

\* err = os.Truncate(cryptF.Name(), devSize): a negative length is refused
\* (EINVAL), otherwise the file gets that size unless the host refuses
SizeTruncate ==
  /\ enc.pc = "truncate"
  /\ \/ EncStep([enc EXCEPT !.pc = "done", !.err = ErrTruncate])
     \/ /\ ~Negative(enc.devSize)
        /\ EncStep([enc EXCEPT !.pc = "loop", !.fileSize = enc.devSize,
                                !.truncated = TRUE])

\* uintDevSize, err := safecast.ToUint64(devSize);
\* loop, err := createLoop(cryptF.Name(), 0, uintDevSize)
SizeCreateLoop ==
  /\ enc.pc = "loop"
  /\ IF Negative(enc.devSize)
       THEN EncStep([enc EXCEPT !.pc = "done", !.err = ErrSafecast])
       ELSE \/ EncStep([enc EXCEPT !.pc = "done", !.err = ErrLoop])
            \/ EncStep([enc EXCEPT !.pc = "format", !.loop = TRUE,
                                    !.loopOffset = Zero64,
                                    !.loopSize = enc.devSize])

\* luksFormat and crypt.Open, which succeed or fail
SizeFormatOpen ==
  /\ enc.pc = "format"
  /\ \/ \E e \in {ErrFormat, ErrOpenFailed} :
          EncStep([enc EXCEPT !.pc = "done", !.err = e])
     \/ EncStep([enc EXCEPT !.pc = "copy"])

\* err = copyDeviceContents(path, "/dev/mapper/"+nextCrypt, fSize)
SizeCopy ==
  /\ enc.pc = "copy"
  /\ \E e \in {Nil, ErrCopy} :
       EncStep([enc EXCEPT !.pc = "done", !.copySize = enc.fSize,
                           !.copied = TRUE, !.err = e])

SizeNext ==
  SizeStat \/ SizeTruncate \/ SizeCreateLoop \/ SizeFormatOpen \/ SizeCopy

\* ===================================================== copyDeviceContents
\* buffer := make([]byte, 10240), scaled down: the capacity of the buffer
BufferCap == 3
\* lengths of the source and values of "size" a call is made with
CopyLengths == 0 .. (2 * BufferCap + 1)

ErrOpenSource == "unable to open the file source"
ErrOpenDest == "unable to open the file: dest"
ErrRead == "unable to read the file source"
ErrWrite == "unable to write to destination"

Min(a, b) == IF a < b THEN a ELSE b

CopyIdle ==
  [pc |-> "open", size |-> 0, srcLen |-> 0, pos |-> 0, writtenSoFar |-> 0,
   numRead |-> 0, n |-> 0, chunkStart |-> 0, maxRead |-> 0, inOrder |-> TRUE,
   err |-> None]

CopyStep(r) ==
  cp' = r
  /\ UNCHANGED <<signals, received, enc, info, orig, masterVars, cryptVars>>

\* byte counts syscall.Read may return with "avail" bytes left in the source
\* and a buffer of "room" bytes: 0 only at end of file, otherwise a short or
\* a full read
ReadCounts(avail, room) == IF avail = 0 THEN {0} ELSE 1 .. Min(avail, room)

\* byte counts syscall.Write may return for "len" bytes: a partial or a
\* full write
WriteCounts(len) == 1 .. len

\* the loop condition of copyDeviceContents
CopyMore(r) == r.writtenSoFar < r.size

\* copyDeviceContents(source, dest, size) is called; syscall.Open of both
CopyOpen ==
  /\ cp.pc = "open"
  /\ \/ \E e \in {ErrOpenSource, ErrOpenDest} :
          CopyStep([cp EXCEPT !.pc = "done", !.err = e])
     \/ \E sz \in CopyLengths, len \in CopyLengths :
          CopyStep([cp EXCEPT !.pc = "loop", !.size = sz, !.srcLen = len])

\* for writtenSoFar < size { ... }; return nil
CopyLoop ==
  /\ cp.pc = "loop"
  /\ IF CopyMore(cp)
       THEN CopyStep([cp EXCEPT !.pc = "read"])
       ELSE CopyStep([cp EXCEPT !.pc = "done", !.err = Nil])

\* buffer = buffer[:cap(buffer)]; numRead, err := syscall.Read(sourceFd,
\* buffer); buffer = buffer[:numRead]
CopyRead ==
  /\ cp.pc = "read"
  /\ \/ CopyStep([cp EXCEPT !.pc = "done", !.err = ErrRead])
     \/ \E k \in ReadCounts(cp.srcLen - cp.pos, BufferCap) :
          CopyStep([cp EXCEPT !.pc = "write", !.numRead = k, !.n = 0,
                              !.chunkStart = cp.pos, !.pos = cp.pos + k,
                              !.maxRead = IF k > @ THEN k ELSE @])

\* for n := 0; n < numRead; { numWritten, err := syscall.Write(destFd,
\* buffer[n:]); n += numWritten; writtenSoFar += int64(numWritten) }
CopyWrite ==
  /\ cp.pc = "write"
  /\ IF cp.n < cp.numRead
       THEN \/ CopyStep([cp EXCEPT !.pc = "done", !.err = ErrWrite])
            \/ \E w \in WriteCounts(cp.numRead - cp.n) :
                 CopyStep([cp EXCEPT
                   !.n = @ + w, !.writtenSoFar = @ + w,
                   !.inOrder = @ /\ (cp.chunkStart + cp.n = cp.writtenSoFar)])
       ELSE CopyStep([cp EXCEPT !.pc = "loop"])

CopyNext == CopyOpen \/ CopyLoop \/ CopyRead \/ CopyWrite

\* ============================================================ rpc.FileInfo
\* the zero value of time.Time, for which IsZero reports true
ZeroTime == 0
\* what time.Now() returns when the model starts
ClockStart == ZeroTime + 1
\* os.FileMode as the set of its bits that are set
ModeDir == "ModeDir"
FileModes == {{}, {"r"}, {ModeDir}, {ModeDir, "r"}}
ModeIsDir(m) == ModeDir \in m

\* the os.FileInfo values FileInfo is called with
FileInfos ==
  [name : {"a", "b"}, size : {0, 1}, mode : FileModes,
   modTime : ZeroTime .. MaxClock, sys : {Nil, "Stat_t"}]

\* FileInfo(fi): &fileInfo{N: fi.Name(), S: fi.Size(), M: fi.Mode(),
\* T: fi.ModTime(), Sy: fi.Sys()}
FileInfo(fi) ==
  [N |-> fi.name, S |-> fi.size, M |-> fi.mode, T |-> fi.modTime,
   Sy |-> fi.sys]

Name(s) == s.N
Size(s) == s.S
Mode(s) == s.M
IsZero(t) == t = ZeroTime
\* if fi.T.IsZero() { return time.Now() }; return fi.T
ModTime_Stored(s, now) == s.T
ModTime(s, now) == IF IsZero(s.T) THEN now ELSE s.T
IsDir(s) == ModeIsDir(s.M)
Sys(s) == s.Sy

InfoIdle ==
  [pc |-> "new", fi |-> [name |-> "a", size |-> 0, mode |-> {},
                         modTime |-> ZeroTime, sys |-> Nil],
   snap |-> FileInfo([name |-> "a", size |-> 0, mode |-> {},
                      modTime |-> ZeroTime, sys |-> Nil]),
   now |-> ClockStart, called |-> FALSE, first |-> ZeroTime,
   last |-> ZeroTime]

InfoStep(r) ==
  info' = r
  /\ UNCHANGED <<signals, received, enc, cp, orig, masterVars, cryptVars>>

\* the server builds the snapshot of an os.FileInfo
InfoBuild ==
  /\ info.pc = "new"
  /\ \E fi \in FileInfos :
       InfoStep([info EXCEPT !.pc = "built", !.fi = fi, !.snap = FileInfo(fi)])

\* a caller asks the snapshot for its modification time
InfoModTime ==
  /\ info.pc = "built"
  /\ LET t == ModTime(info.snap, info.now) IN
       InfoStep([info EXCEPT !.called = TRUE, !.last = t,
                             !.first = IF info.called THEN @ ELSE t])

\* the wall clock advances
InfoClockTick ==
  /\ info.now < MaxClock
  /\ InfoStep([info EXCEPT !.now = @ + 1])

InfoNext == InfoBuild \/ InfoModTime \/ InfoClockTick

\* ===================================================== currentOriginalUser
\* the goroutines that call CurrentOriginal
Readers == {"r1", "r2"}
\* the *User values SetCurrentOriginal is called with, nil included
SetUsers == {Nil, "alice", "bob"}
\* what GetPwUID finds for the host uid
HostUser == "hostuser"
ErrHostUID == "failed to get host uid"
ErrGetPwUID == "user not found"

ReaderIdle ==
  [pc |-> "idle", u |-> Nil, atLoad |-> Nil, hostUID |-> FALSE,
   lookup |-> FALSE, ret |-> <<Nil, Nil>>]

\* var currentOriginalUser atomic.Pointer[User]: the zero value holds nil
OrigIdle ==
  [cell |-> Nil, lastSet |-> Nil, stored |-> {}, r |-> [x \in Readers |-> ReaderIdle]]

OrigStep(o) ==
  orig' = o
  /\ UNCHANGED <<signals, received, enc, cp, info, masterVars, cryptVars>>

\* SetCurrentOriginal(u): currentOriginalUser.Store(u)
SetCurrentOriginal ==
  \E u \in SetUsers :
    OrigStep([orig EXCEPT !.cell = u, !.lastSet = u, !.stored = @ \cup {u}])

\* CurrentOriginal: u := currentOriginalUser.Load()
CurrentOriginalLoad(x) ==
  /\ orig.r[x].pc \in {"idle", "returned"}
  /\ OrigStep([orig EXCEPT !.r[x] = [ReaderIdle EXCEPT
                  !.pc = "loaded", !.u = orig.cell,
                  !.atLoad = orig.lastSet]])

\* what CurrentOriginal does with the pointer it loaded: the outcomes of
\* "if u != nil { return u, nil }", namespaces.HostUID and GetPwUID
Outcomes_AlwaysLookup(rd) ==
  {[rd EXCEPT !.hostUID = TRUE, !.ret = <<Nil, ErrHostUID>>],
   [rd EXCEPT !.hostUID = TRUE, !.lookup = TRUE, !.ret = <<Nil, ErrGetPwUID>>],
   [rd EXCEPT !.hostUID = TRUE, !.lookup = TRUE, !.ret = <<HostUser, Nil>>]}
Outcomes(rd) ==
  IF rd.u # Nil
    THEN {[rd EXCEPT !.ret = <<rd.u, Nil>>]}
    ELSE {[rd EXCEPT !.hostUID = TRUE, !.ret = <<Nil, ErrHostUID>>],
          [rd EXCEPT !.hostUID = TRUE, !.lookup = TRUE,
                     !.ret = <<Nil, ErrGetPwUID>>],
          [rd EXCEPT !.hostUID = TRUE, !.lookup = TRUE,
                     !.ret = <<HostUser, Nil>>]}

\* CurrentOriginal returns
CurrentOriginalReturn(x) ==
  /\ orig.r[x].pc = "loaded"
  /\ \E rd \in Outcomes(orig.r[x]) :
       OrigStep([orig EXCEPT !.r[x] = [rd EXCEPT !.pc = "returned"]])

OrigNext ==
  \/ SetCurrentOriginal
  \/ \E x \in Readers : CurrentOriginalLoad(x)
  \/ \E x \in Readers : CurrentOriginalReturn(x)

\* ------------------------------------------------------------ specification
MasterNext ==
  \/ MainNotify \/ MainGoCreate \/ MainGoStart \/ MainGoMonitor
  \/ MainRecv \/ MainCleanupBegin \/ MainCleanupEnd \/ MainCheckFatal
  \/ MainReset \/ MainStatus \/ MainRaise \/ MainExit
  \/ CreateOpen \/ CreateReturn \/ CreateSend
  \/ StartOpen \/ StartRead1 \/ StartPreBegin \/ StartPreEnd \/ StartRead2
  \/ StartPostBegin \/ StartPostEnd \/ StartSend \/ HookSend
  \/ MonReturn \/ MonSend
  \/ S2Write \/ S2StartProcess \/ S2Exec \/ S2Die

\* the parts modelled on their own, at rest
UnitQuiet ==
  /\ signals = <<>>
  /\ received = <<>>
  /\ enc = EncIdle
  /\ cp = CopyIdle
  /\ info = InfoIdle
  /\ orig = OrigIdle

\* the master, with the crypt layer at rest
MasterInit == MasterStart /\ CryptQuiet /\ UnitQuiet
Init == MasterInit
Next == MasterNext
Spec == Init /\ [][Next]_vars

\* the master with its scheduling: the main goroutine runs whenever it can,
\* and so do the sends of the monitoring goroutine and of startContainer
MainStep ==
  \/ MainRecv \/ MainCleanupBegin \/ MainCleanupEnd \/ MainCheckFatal
  \/ MainReset \/ MainStatus \/ MainRaise \/ MainExit
FairSpec ==
  Spec /\ WF_vars(MainStep) /\ WF_vars(MonSend) /\ WF_vars(StartSend)

\* the crypt layer, with the master at rest
MasterQuiet ==
  /\ MasterStart
  /\ hasPreStart = FALSE
CryptInit == MasterQuiet /\ CryptStart /\ UnitQuiet
CryptSpec == CryptInit /\ [][CryptNext]_vars

\* one call of EncryptFilesystem, as far as sizes go
SizeInit == MasterQuiet /\ CryptQuiet /\ UnitQuiet
SizeSpec == SizeInit /\ [][SizeNext]_vars

\* SetCurrentOriginal and CurrentOriginal called from any goroutines
OrigInit == MasterQuiet /\ CryptQuiet /\ UnitQuiet
OrigSpec == OrigInit /\ [][OrigNext]_vars

\* one snapshot made by rpc.FileInfo and the calls of its ModTime
InfoInit == MasterQuiet /\ CryptQuiet /\ UnitQuiet
InfoSpec == InfoInit /\ [][InfoNext]_vars

\* one call of copyDeviceContents; the call keeps running while it can
CopyInit == MasterQuiet /\ CryptQuiet /\ UnitQuiet
CopySpec == CopyInit /\ [][CopyNext]_vars
CopyFairSpec == CopySpec /\ WF_vars(CopyNext)

\* Master up to the launch of its three tasks, with signals arriving
SignalNext ==
  \/ MainNotify \/ MainGoCreate \/ MainGoStart \/ MainGoMonitor
  \/ SigDeliver \/ MonTakeSignal
SignalSpec == MasterInit /\ [][SignalNext]_vars


\* ------------------------------------------------------------------ claims
\* values the start-synchronizer (startContainer) has sent on fatalChan
SentBy(t) == {sentLog[i][2] : i \in {j \in 1..Len(sentLog) : sentLog[j][1] = t}}
\* startContainer is at or past the call of PostStartProcess
AtOrPastPostCall == startPc \in {"postcall", "poststart", "send", "done"}
\* Master is past the receive on fatalChan
Received == fatal # None

\* C1: when the value received from fatalChan is nil and the wait status is
\* "signaled" with signal s, the master resets its signal handlers before it
\* raises s on itself, raises exactly s, and ends either killed by s or, if
\* the signal did not terminate it, by exiting with 128 + s.
C1_SignalFaithful ==
  (fatal = Nil /\ Signaled(status)) =>
    /\ raised # NoSignal => (handlers = "reset" /\ raised = Signal(status))
    /\ mainPc \in {"raise", "exit"} =>
         (handlers = "reset" /\ exitCode = 128 + Signal(status))
    /\ mainPc = "exit" => raised = Signal(status)
    /\ mainPc = "done" =>
         /\ raised = Signal(status)
         /\ procEnd \in {<<"signal", Signal(status)>>,
                         <<"exit", 128 + Signal(status)>>}
C1_Witness ==
  /\ mainPc = "done" /\ fatal = Nil /\ status = 9
  /\ raised = 9 /\ procEnd = <<"exit", 137>>

\* C2: when the value received from fatalChan is nil and the wait status is
\* "exited" with code c, the master raises no signal and exits with exactly c
\* (0 when the child exited 0).
C2_ExitCodePropagated ==
  (fatal = Nil /\ Exited(status)) =>
    /\ raised = NoSignal
    /\ mainPc # "raise"
    /\ mainPc = "done" => procEnd = <<"exit", ExitStatus(status)>>
    /\ (mainPc = "done" /\ status = 0) => procEnd = <<"exit", 0>>
C2_Witness ==
  /\ mainPc = "done" /\ fatal = Nil /\ status = 65280
  /\ procEnd = <<"exit", 255>>

\* C3: Master consumes exactly one value from fatalChan, the first one sent by
\* any task; if it is a non-nil error, CleanupContainer is called with it and
\* the master then exits with a non-zero code and raises no signal, whatever
\* the wait status is; later sends never change the received value.
C3_FirstFatalWins ==
  /\ Len(sentLog) - Len(fatalChan) = (IF Received THEN 1 ELSE 0)
  /\ Received => fatal = sentLog[1][2]
  /\ (Received /\ fatal # Nil) =>
       /\ raised = NoSignal
       /\ mainPc \in {"cleanup_call", "cleanup", "check_fatal", "done"}
       /\ cleanup.state # "no" => cleanup.fatal = fatal
       /\ mainPc = "done" =>
            /\ cleanup.state = "done"
            /\ procEnd = <<"exit", FatalExitCode>>
            /\ procEnd[2] # 0
C3_Witness ==
  /\ mainPc = "done" /\ fatal = ErrCreate /\ Len(sentLog) >= 2
  /\ Signaled(status) /\ procEnd = <<"exit", 255>>

\* C4: CleanupContainer begins only after fatalChan delivered a value, and
\* from the moment it begins neither stage-2's StartProcess nor the
\* PreStartProcess / PostStartProcess hooks are running.
C4_CleanupNeverOverlapsStart ==
  cleanup.state # "no" =>
    /\ Received
    /\ startPc \notin {"prestart", "poststart"}
    /\ s2Pc # "startproc"

\* C5: "status" is written only by the monitor task and every read of it by
\* the master (the CleanupContainer argument, the exit code computation)
\* happens after that write.
C5_StatusReadAfterWrite ==
  /\ statusWrites \subseteq {"monitor"}
  /\ cleanup.state # "no" => cleanup.statusWritten
  /\ mainPc \in {"raise", "exit"} => "monitor" \in statusWrites

\* C6 as stated: for every engine, EOF on the first read of the master socket
\* means that neither hook is called and nothing is sent on fatalChan.
C6_Original ==
  (Len(reads) >= 1 /\ reads[1] = EOF) =>
    /\ preCalls = 0 /\ postCalls = 0
    /\ startPc = "done"
    /\ SentBy("start") = {}

\* C6 (amended): for an engine that implements PreStartProcess, EOF on the
\* first read means that neither hook is called and startContainer sends
\* nothing on fatalChan; for an engine that does not implement it, EOF on the
\* only read leads to the call of PostStartProcess.
C6_EOFDefersWithPreStart ==
  (Len(reads) >= 1 /\ reads[1] = EOF) =>
    IF hasPreStart
      THEN /\ preCalls = 0 /\ postCalls = 0
           /\ startPc = "done"
           /\ pend["start"] = None /\ pend["hook"] = None
           /\ SentBy("start") = {} /\ SentBy("hook") = {}
      ELSE /\ AtOrPastPostCall
           /\ startPc # "postcall" => postCalls = 1
C6_Witness ==
  hasPreStart /\ reads = <<EOF>> /\ startPc = "done" /\ mainPc = "recv"

\* C7: if the first byte read from the master socket is 'f', neither hook is
\* called and startContainer (and the hook, which never runs) sends nothing on
\* fatalChan.
C7_FatalByteDefers ==
  (Len(reads) >= 1 /\ reads[1] = "f") =>
    /\ preCalls = 0 /\ postCalls = 0
    /\ startPc = "done"
    /\ Len(reads) = 1
    /\ pend["start"] = None /\ pend["hook"] = None
    /\ SentBy("start") = {} /\ SentBy("hook") = {}
C7_Witness ==
  reads = <<"f">> /\ startPc = "done" /\ ~hasPreStart /\ monPc = "run"

\* C8 as stated: after a first byte other than 'f', PreStartProcess runs if
\* implemented and the socket is read once more; EOF or 'f' on the second
\* read means no PostStartProcess, any other byte means PostStartProcess.
C8_Original ==
  (Len(reads) >= 1 /\ reads[1] \in Bytes \ {"f"}) =>
    /\ (startPc \in {"postcall", "poststart"} \/ postCalls > 0) =>
         (Len(reads) = 2 /\ reads[2] \notin {EOF, "f"})
    /\ (Len(reads) = 2 /\ reads[2] \in Bytes \ {"f"}) => AtOrPastPostCall

\* C8 (amended): with an engine that implements PreStartProcess, after a
\* first byte other than 'f' the hook is run and, if it returns no error, the
\* socket is read once more; 'f' or a non-EOF error on that read means no
\* PostStartProcess, EOF or any other byte means PostStartProcess is called.
\* An engine without PreStartProcess reads once only and calls
\* PostStartProcess after a first byte other than 'f'.
C8_SecondRead ==
  (Len(reads) >= 1 /\ reads[1] \in Bytes \ {"f"}) =>
    IF hasPreStart
      THEN /\ startPc # "precall" => preCalls = 1
           /\ Len(reads) = 2 => preCalls = 1
           /\ (Len(reads) = 2 /\ reads[2] \in {"f", ReadErr}) =>
                (postCalls = 0 /\ startPc = "done")
           /\ (Len(reads) = 2 /\ reads[2] \in {EOF} \cup (Bytes \ {"f"})) =>
                (AtOrPastPostCall /\ (startPc # "postcall" => postCalls = 1))
           /\ Len(reads) = 1 => postCalls = 0
      ELSE /\ Len(reads) = 1
           /\ preCalls = 0
           /\ AtOrPastPostCall
           /\ startPc # "postcall" => postCalls = 1
C8_Witness ==
  hasPreStart /\ reads = <<"c", EOF>> /\ preCalls = 1 /\ postCalls = 1

\* C9 as stated: the master's RPC connection is closed only once stage-2 has
\* written its start-barrier byte or is dead.
C9_Original ==
  rpcConn = "closed" => (s2Writes > 0 \/ s2Pc = "dead")

\* C9 (amended): createContainer closes the master's RPC connection only
\* after CreateContainer returned without error, whatever stage-2 has done on
\* the start barrier; on an error path it sends the error and closes nothing.
C9_RpcClosedAfterCreate ==
  /\ rpcConn = "closed" =>
       (createPc = "done" /\ pend["create"] = None /\ SentBy("create") = {})
  /\ (createPc = "done" /\ SentBy("create") = {}) => rpcConn = "closed"
C9_Witness ==
  rpcConn = "closed" /\ s2Pc = "setup" /\ s2Writes = 0 /\ createPc = "done"

\* a cryptsetup open or close of call p is running
MapperExec(p) == cproc[p].exec \in {"open", "close"}

\* C10: every cryptsetup open and close issued by Open, CloseCryptDevice and
\* EncryptFilesystem runs while the issuing call holds the exclusive lock on
\* /dev/mapper, so no two of them overlap.
C10_MapperLockSerializes ==
  /\ \A p \in Procs : MapperExec(p) => lockHolder = p
  /\ \A p, q \in Procs : (MapperExec(p) /\ MapperExec(q)) => p = q

\* call p is inside Open, between lock.Exclusive and the return
InOpenSequence(p) == cproc[p].pc \in {"o_loop", "o_wait", "o_verwait", "o_poll"}
\* call p is outside every section of the layer that takes the lock
OutsideLocked(p) == cproc[p].pc \notin {"o_loop", "o_wait", "o_verwait", "o_poll", "c_wait"}

\* C11: Open holds the exclusive /dev/mapper lock for the whole open sequence
\* (name generation, every retry, the --version check, the whole polling) and
\* has released it whenever it has returned, whatever the return path: a call
\* that is not inside a locked section never holds the lock.
C11_OpenHoldsLock ==
  /\ \A p \in Procs : InOpenSequence(p) => lockHolder = p
  /\ \A p \in Procs : OutsideLocked(p) => lockHolder # p

\* an Open has returned the polling timeout and the lock is already held by
\* another call that polls for its own mapper
C11_Witness ==
  \E p, q \in Procs :
    /\ cproc[p].op = "Open" /\ cproc[p].pc = "done" /\ cproc[p].err = ErrNoShow
    /\ cproc[q].pc = "o_poll" /\ lockHolder = q /\ cproc[q].attempt > 0

\* the calls made so far are Open calls only (nothing has closed a mapper)
OpensOnly == \A p \in Procs : cproc[p].op \in {"idle", "Open"}
\* Open call p has returned a mapper name to its caller
Opened(p) ==
  cproc[p].op = "Open" /\ cproc[p].pc = "done" /\ cproc[p].err = Nil
\* the cryptsetup open of call p ends in success in this step
OpenActivates(p) == cproc[p].pc = "o_wait" /\ cproc'[p].pc = "o_poll"
\* Open call p returns a mapper name in this step
OpenSucceeds(p) ==
  cproc[p].pc = "o_poll" /\ ~cproc[p].nested /\ cproc'[p].pc = "done"
  /\ cproc'[p].err = Nil

\* C12: mapper uniqueness. Among concurrent Open calls that draw names from
\* one name space, the names returned by successful calls are pairwise
\* distinct; the name a successful call returns is the one its cryptsetup open
\* activated, and that name was not an active mapper when it was opened.
C12_MapperUnique ==
  /\ [](OpensOnly =>
         \A p, q \in Procs :
           (Opened(p) /\ Opened(q) /\ p # q) => cproc[p].retName # cproc[q].retName)
  /\ [][\A p \in Procs :
          /\ OpenActivates(p) => cproc[p].name \notin activeMappers
          /\ OpenSucceeds(p) => /\ cproc'[p].retName = cproc[p].name
                                /\ cproc[p].name \in activeMappers]_vars

\* two Open calls have both returned a name, next to a mapper that was
\* active before
C12_Witness ==
  /\ OpensOnly
  /\ \E p, q \in Procs :
       /\ p # q /\ Opened(p) /\ Opened(q)
       /\ cproc[p].retName = "uuid-a" /\ cproc[q].retName = "uuid-b"

\* Open call p gives up in this step because every attempt collided
OpenExhausts(p) ==
  /\ cproc[p].pc = "o_loop"
  /\ cproc'[p].pc = "done"
  /\ cproc'[p].err = ErrOpenExhausted

\* C13: after a collision ("Device already exists") Open retries with a new
\* name up to 3 times: the first attempt plus three retries may be made, and
\* Open gives up because of collisions only after a fourth collision, that of
\* the attempt following the third retry.
C13_ThreeRetries ==
  [][\A p \in Procs : OpenExhausts(p) => cproc[p].i = MaxRetries + 1]_vars

\* C14: when the first two cryptsetup open attempts of an Open call failed
\* with "Device already exists" and the third succeeded and its node appeared,
\* Open returns the name of the third attempt, and that name is none of the
\* names of the two failed attempts.
C14_ThirdAttemptName ==
  [][\A p \in Procs :
       (OpenSucceeds(p) /\ cproc[p].i = 2) =>
         /\ cproc'[p].retName = cproc[p].name
         /\ cproc[p].name \notin cproc[p].tried]_vars

\* Open call p (or the Open inside EncryptFilesystem) returns in this step
\* after a cryptsetup open that failed with "No key available"
NoKeyReturns(p) ==
  /\ cproc[p].pc = "o_verwait"
  /\ cproc[p].out = "nokey"
  /\ cproc'[p].pc = "done"

\* C15 as stated: a cryptsetup open that fails with "No key available" makes
\* Open return ErrInvalidPassphrase and no mapper name, whatever version the
\* installed cryptsetup reports.
C15_Original ==
  [][\A p \in Procs :
       NoKeyReturns(p) => /\ cproc'[p].err = ErrInvalidPassphrase
                          /\ cproc'[p].retName = ""]_vars

\* C15: a cryptsetup open that fails with "No key available" makes Open
\* return no mapper name and ErrInvalidPassphrase, unless cryptsetup --version
\* ran and reported a version other than 2.x: then Open returns
\* ErrUnsupportedCryptsetupVersion.
C15_InvalidPassphrase ==
  [][\A p \in Procs :
       NoKeyReturns(p) =>
         /\ cproc'[p].retName = ""
         /\ cproc'[p].err = IF cryptVersion \in {"2.x", "fail"}
                              THEN ErrInvalidPassphrase
                              ELSE ErrUnsupportedCryptsetupVersion]_vars

\* an Open on a 2.x cryptsetup has returned ErrInvalidPassphrase
C15_Witness ==
  \E p \in Procs :
    /\ cproc[p].op = "Open" /\ cproc[p].pc = "done"
    /\ cproc[p].err = ErrInvalidPassphrase /\ cproc[p].retName = ""
    /\ cryptVersion = "2.x" /\ lockHolder = 0

\* the luksFormat or open invocation of call p ends in failure in this step
ExecFails(p) ==
  \/ cproc[p].pc = "o_wait" /\ cproc'[p].pc \notin {"o_wait", "o_poll"}
  \/ cproc[p].pc = "e_fmtwait" /\ cproc'[p].pc \notin {"e_fmtwait", "o_lock"}
\* the open invocation of call p fails with "Device already exists"
ExecCollides(p) == cproc[p].pc = "o_wait" /\ cproc'[p].pc = "o_loop"
\* the cryptsetup --version run after a failure of call p ends in this step
VersionChecked(p) ==
  cproc[p].pc \in {"o_verwait", "e_verwait"} /\ cproc'[p].pc = "done"
\* the errors Open and EncryptFilesystem return for a failed invocation
NotVersionErrors == {ErrOpenFailed, ErrInvalidPassphrase, ErrFormat}
\* call p has returned from Open or EncryptFilesystem
OpenOrEncryptDone(p) ==
  cproc[p].pc = "done" /\ cproc[p].op \in {"Open", "Encrypt"}

\* C16 as stated: every failed luksFormat and every failed open is followed by
\* a run of cryptsetup --version, a reported version other than 2.x makes the
\* operation return ErrUnsupportedCryptsetupVersion, and on such a binary no
\* failed invocation ends in another error.
C16_Original ==
  /\ [][\A p \in Procs :
          /\ ExecFails(p) => cproc'[p].exec = "version"
          /\ (VersionChecked(p) /\ cryptVersion = "1.7.5") =>
               cproc'[p].err = ErrUnsupportedCryptsetupVersion]_vars
  /\ [](cryptVersion = "1.7.5" =>
          \A p \in Procs :
            OpenOrEncryptDone(p) =>
              cproc[p].err \notin NotVersionErrors \cup {ErrOpenExhausted})

\* C16: every failed luksFormat, and every failed open whose output does not
\* contain "Device already exists", is followed by a run of cryptsetup
\* --version; a reported version other than 2.x makes the operation return
\* ErrUnsupportedCryptsetupVersion and none of the errors of a failed
\* invocation. A failed open with "Device already exists" is retried without
\* a version check.
C16_VersionCheckedOnFailure ==
  /\ [][\A p \in Procs :
          /\ (ExecFails(p) /\ ~ExecCollides(p)) => cproc'[p].exec = "version"
          /\ ExecCollides(p) => cproc'[p].exec = "none"
          /\ (VersionChecked(p) /\ cryptVersion = "1.7.5") =>
               cproc'[p].err = ErrUnsupportedCryptsetupVersion]_vars
  /\ [](cryptVersion = "1.7.5" =>
          \A p \in Procs :
            OpenOrEncryptDone(p) => cproc[p].err \notin NotVersionErrors)

\* on a 1.7.5 binary an EncryptFilesystem and an Open have both returned
\* ErrUnsupportedCryptsetupVersion
C16_Witness ==
  /\ cryptVersion = "1.7.5"
  /\ \E p, q \in Procs :
       /\ cproc[p].op = "Encrypt" /\ cproc[p].pc = "done"
       /\ cproc[p].err = ErrUnsupportedCryptsetupVersion
       /\ cproc[q].op = "Open" /\ cproc[q].pc = "done"
       /\ cproc[q].err = ErrUnsupportedCryptsetupVersion

PollSleeps(p) ==
  /\ cproc[p].pc = "o_poll" /\ cproc'[p].pc = "o_poll"
  /\ cproc'[p].attempt = cproc[p].attempt + 1
\* the polling loop of call p gives up in this step
PollTimesOut(p) ==
  /\ cproc[p].pc = "o_poll" /\ cproc'[p].pc = "done"
  /\ cproc'[p].err = ErrNoShow
\* the polling loop of call p finds the node in this step
PollFinds(p) ==
  /\ cproc[p].pc = "o_poll" /\ cproc'[p].pc \in {"done", "e_copy"}
  /\ cproc'[p].err \in {Nil, None}

\* C18: the device-appearance polling sleeps 100, 200, 400, ..., 12800 ms
\* (sleep k is 100 * 2^k ms, k = 0..7), each sleep after a stat that did not
\* find the node; it succeeds at a stat that finds the node; it gives up with
\* the timeout exactly when the node is still absent once the sleeps sum to
\* 25500 ms; no single sleep is 25600 ms or longer.
C18_PollSchedule ==
  /\ [](\A p \in Procs :
          cproc[p].pc = "o_poll" =>
            /\ cproc[p].attempt \in 0..8
            /\ cproc[p].slept = 100 * ((2 ^ cproc[p].attempt) - 1))
  /\ [][\A p \in Procs :
          /\ PollSleeps(p) =>
               /\ cproc'[p].slept - cproc[p].slept = 100 * (2 ^ cproc[p].attempt)
               /\ cproc'[p].slept - cproc[p].slept < 25600
               /\ cproc[p].attempt \in 0..7
               /\ cproc[p].slept < 25500
               /\ cproc[p].name \notin mapperNodes
          /\ PollTimesOut(p) =>
               /\ cproc[p].slept = 25500
               /\ cproc[p].name \notin mapperNodes
          /\ PollFinds(p) => cproc[p].name \in mapperNodes]_vars

\* a polling loop has slept 25500 ms in eight sleeps and the node is absent
C18_Witness ==
  \E p \in Procs :
    /\ cproc[p].pc = "o_poll" /\ cproc[p].attempt = 8
    /\ cproc[p].slept = 25500 /\ cproc[p].name \notin mapperNodes

\* Open (or the Open inside EncryptFilesystem) returns in this step, after its
\* cryptsetup open had succeeded
ReturnsAfterOpen(p) == cproc[p].pc = "o_poll" /\ cproc'[p].pc = "done"
\* EncryptFilesystem returns in this step, after its Open had succeeded
EncryptReturnsAfterOpen(p) ==
  cproc[p].pc \in {"e_copy", "e_closewait"} /\ cproc'[p].pc = "done"

\* C19: every mapper the layer activated is closed or owned when the
\* operation returns: an Open whose cryptsetup open succeeded returns the
\* mapper's name or leaves no such mapper active, and an EncryptFilesystem
\* whose Open succeeded leaves its mapper closed, on the error paths too
\* (polling timeout, stat error, copy failure).
C19_NoOrphanMapper ==
  [][\A p \in Procs :
       /\ ReturnsAfterOpen(p) =>
            \/ cproc'[p].retName = cproc[p].name
            \/ cproc[p].name \notin activeMappers'
       /\ EncryptReturnsAfterOpen(p) => cproc[p].arg \notin activeMappers']_vars

\* C20: when the cryptsetup binary that was found is not owned by uid 0,
\* no call of Open, CloseCryptDevice or EncryptFilesystem executes it (no
\* luksFormat, open, close or --version runs) and every call that has
\* returned has returned an error.
C20_NotRootNeverExecuted ==
  (binFound /\ ~binOwnerRoot) =>
    \A p \in Procs :
      /\ cproc[p].exec = "none"
      /\ cproc[p].pc \notin {"o_wait", "o_verwait", "o_poll", "c_wait",
                               "e_fmtwait", "e_verwait", "e_closewait"}
      /\ cproc[p].pc = "done" => cproc[p].err \notin {Nil, None}

\* with a binary not owned by root, an Open and an EncryptFilesystem have
\* both been refused
C20_Witness ==
  /\ binFound /\ ~binOwnerRoot
  /\ \E p, q \in Procs :
       /\ cproc[p].op = "Open" /\ cproc[p].pc = "done"
       /\ cproc[p].err = ErrNotRoot
       /\ cproc[q].op = "Encrypt" /\ cproc[q].pc = "done"
       /\ cproc[q].err = ErrNotRoot

\* a task of Master has been launched
TaskLaunched == createPc # "unborn" \/ startPc # "unborn" \/ monPc # "unborn"
\* signal sig is delivered to the master in this step
Delivered(sig) == received' = Append(received, sig)
\* the channel takes signal sig in this step if it has room
QueuedIfRoom(sig) ==
  signals' = IF Len(signals) < SignalsCap THEN Append(signals, sig) ELSE signals

\* C21 as stated: the handler is installed before any task is launched and
\* queues every signal the master receives except SIGURG, which is never in
\* the queue.
C21_Original ==
  /\ [](TaskLaunched => handlers = "notify")
  /\ [](\A i \in 1..Len(signals) : signals[i] # SIGURG)
  /\ [][\A sig \in SignalSet \ {SIGURG} :
          (Delivered(sig) /\ handlers = "notify") => QueuedIfRoom(sig)]_vars

\* C21: the handler is installed before any task is launched and queues
\* every signal the master receives, SIGURG included, as long as the channel
\* of capacity 2 has room; a signal that finds the channel full is dropped.
C21_AllSignalsQueued ==
  /\ [](TaskLaunched => handlers = "notify")
  /\ [](Len(signals) <= SignalsCap)
  /\ [][\A sig \in SignalSet :
          (Delivered(sig) /\ handlers = "notify") => QueuedIfRoom(sig)]_vars

\* SIGURG sits in the channel next to another signal while the monitor runs
C21_Witness ==
  /\ monPc = "run"
  /\ signals = <<SIGURG, SIGTERM>>

\* how the master process ends, given the value it received on fatalChan and
\* the wait status: the outcomes of a run whose CleanupContainer returned nil
OutcomeWithoutCleanupError(f, st) ==
  IF f # Nil THEN {<<"exit", FatalExitCode>>}
  ELSE IF Signaled(st) THEN {<<"signal", Signal(st)>>, <<"exit", 128 + Signal(st)>>}
  ELSE {<<"exit", MainExitCode(st)>>}

\* C22: an error returned by CleanupContainer changes nothing but the log:
\* the fatal error the master reports is the value it received, and how the
\* master ends (exit code, re-raised signal) is what a run with the same
\* received value and wait status gives when CleanupContainer returns nil.
C22_CleanupErrorOnlyLogged ==
  /\ cleanup.state = "done" => fatal = cleanup.fatal
  /\ mainPc = "done" =>
       /\ procEnd \in OutcomeWithoutCleanupError(cleanup.fatal, status)
       /\ raised = IF cleanup.fatal = Nil /\ Signaled(status)
                     THEN Signal(status) ELSE NoSignal

\* CleanupContainer failed in a run without fatal error, and the master
\* exited with the exit status of the child
C22_Witness ==
  /\ mainPc = "done"
  /\ cleanup.err = "container cleanup failed"
  /\ cleanup.fatal = Nil
  /\ status = 256
  /\ procEnd = <<"exit", 1>>

\* the call has computed devSize
SizeComputed ==
  enc.pc \in {"truncate", "loop", "format", "copy"}
  \/ (enc.pc = "done" /\ enc.err \notin {ErrStatImage, ErrCreateTemp})
\* image-size + 16 MiB is at most 2^63 - 1
FitsWithOverhead(sz) == sz[1] < (TopBase \div 2) - 1 \/ sz[2] < LimbBase - 1
\* what the temporary file, the loop device and the copy get
SizesUsed ==
  /\ enc.truncated => enc.fileSize = enc.devSize
  /\ enc.loop => (enc.truncated /\ enc.loopOffset = Zero64
                   /\ enc.loopSize = enc.fileSize)
  /\ enc.copied => (enc.loop /\ enc.copySize = enc.fSize)

\* C23 as stated: for every image size the temporary crypt file is sized to
\* exactly image-size + 16777216 bytes, the loop device gets offset 0 and
\* that size as its limit, and exactly image-size bytes are copied.
C23_Original ==
  /\ SizeComputed => (enc.devSize = Add64(enc.fSize, Overhead64)
                       /\ ~Negative(enc.devSize))
  /\ SizesUsed

\* C23: for every image size up to 2^63 - 1 - 16777216 the temporary crypt
\* file is sized to exactly image-size + 16777216 bytes, the loop device gets
\* offset 0 and that size as its limit, and exactly image-size bytes are
\* copied; for a larger image size the int64 sum wraps to a negative number,
\* Truncate fails, and no file is sized, no loop attached, nothing copied.
C23_OverAllocation ==
  /\ SizeComputed =>
       /\ enc.devSize = Add64(enc.fSize, Overhead64)
       /\ FitsWithOverhead(enc.fSize) <=> ~Negative(enc.devSize)
       /\ ~FitsWithOverhead(enc.fSize) =>
            /\ ~enc.truncated /\ ~enc.loop /\ ~enc.copied
            /\ enc.pc = "done" => enc.err = ErrTruncate
  /\ SizesUsed

\* an image of 2^48 + 2^48 - 2^24 + 1 bytes has been copied: the file and
\* the loop limit are 2^49 + 1 bytes
C23_Witness ==
  /\ enc.pc = "done" /\ enc.err = Nil /\ enc.copied
  /\ enc.fSize = <<1, LimbBase - 1, 1>>
  /\ enc.fileSize = <<2, 0, 1>>
  /\ enc.loopSize = <<2, 0, 1>>
  /\ enc.copySize = <<1, LimbBase - 1, 1>>

\* C24: every read takes at most the buffer capacity, the destination
\* receives the bytes of the source in order, a chunk is left only when all
\* of it is written, and a call that returns nil on a source at least "size"
\* bytes long has written exactly "size" bytes, never more.
C24_ExactlySize ==
  /\ cp.maxRead <= BufferCap
  /\ cp.inOrder
  /\ cp.pc = "loop" => cp.n = cp.numRead
  /\ (cp.pc = "done" /\ cp.err = Nil /\ cp.srcLen >= cp.size) =>
       cp.writtenSoFar = cp.size

\* C30: every call of copyDeviceContents returns, also when the source
\* ends before "size" bytes were copied.
C30_CopyTerminates == <>(cp.pc = "done")

\* what the snapshot reports besides the modification time
SnapshotFields ==
  /\ Name(info.snap) = info.fi.name
  /\ Size(info.snap) = info.fi.size
  /\ Mode(info.snap) = info.fi.mode
  /\ Sys(info.snap) = info.fi.sys
  /\ IsDir(info.snap) = ModeIsDir(Mode(info.snap))
  /\ IsDir(info.snap) = ModeIsDir(info.fi.mode)

\* C25 as stated: for every fi, the zero modification time included, the
\* snapshot reports the Name, Size, Mode and ModTime of fi, repeated ModTime
\* calls return the same value, and IsDir equals Mode().IsDir().
C25_Original ==
  info.pc = "built" =>
    /\ SnapshotFields
    /\ info.called => (info.first = info.fi.modTime /\ info.last = info.first)

\* C25: the snapshot reports the Name, Size and Mode of fi and IsDir equals
\* Mode().IsDir(); for an fi whose modification time is not the zero time
\* every ModTime call returns that time; for the zero time every ModTime call
\* returns the clock reading of the call, never the zero time.
C25_SnapshotUnlessZeroTime ==
  info.pc = "built" =>
    /\ SnapshotFields
    /\ (info.called /\ ~IsZero(info.fi.modTime)) =>
         (info.first = info.fi.modTime /\ info.last = info.first)
    /\ (info.called /\ IsZero(info.fi.modTime)) =>
         /\ ~IsZero(info.first) /\ ~IsZero(info.last)
         /\ info.first <= info.last /\ info.last <= info.now

\* two ModTime calls on the snapshot of a directory with the zero
\* modification time returned two different clock readings
C25_Witness ==
  /\ info.pc = "built" /\ info.called
  /\ IsZero(info.fi.modTime) /\ IsDir(info.snap)
  /\ info.first = ClockStart /\ info.last = ClockStart + 1

\* C26: the cell holds the value of the latest SetCurrentOriginal (nil
\* before the first); a CurrentOriginal whose Load saw a non-nil value
\* returns exactly that value, the one of the latest SetCurrentOriginal
\* completed before the Load and one that was stored, with no host uid or
\* user database lookup; it asks for the host uid if and only if its Load
\* saw nil.
C26_AtomicCell ==
  /\ orig.cell = orig.lastSet
  /\ \A x \in Readers :
       LET rd == orig.r[x] IN
         /\ rd.pc \in {"loaded", "returned"} => rd.u = rd.atLoad
         /\ rd.pc = "returned" =>
              /\ rd.u # Nil =>
                   /\ rd.ret = <<rd.atLoad, Nil>>
                   /\ rd.u \in orig.stored
                   /\ ~rd.lookup
              /\ rd.hostUID <=> rd.u = Nil
              /\ rd.lookup => rd.hostUID

\* one CurrentOriginal returned the user stored first while a later
\* SetCurrentOriginal has replaced it, and another one, whose Load saw nil,
\* returned the user found for the host uid
C26_Witness ==
  /\ orig.cell = "bob"
  /\ orig.r["r1"].pc = "returned" /\ orig.r["r1"].ret = <<"alice", Nil>>
  /\ orig.r["r2"].pc = "returned" /\ orig.r["r2"].ret = <<HostUser, Nil>>
  /\ orig.r["r2"].lookup

\* C27: once MonitorContainer has returned, the master eventually receives
\* a value from the fatal channel, runs CleanupContainer to its end and
\* exits, whatever the other tasks and the hook send.
C27_MasterProgresses ==
  (monPc = "send") ~> (mainPc = "done" /\ fatal # None /\ cleanup.state = "done")

\* the master has exited after cleanup on the nil error of the monitoring
\* goroutine, in a run whose PreStartProcess hook wanted to send an error too
C27_Witness ==
  /\ mainPc = "done" /\ monPc = "done" /\ cleanup.state = "done"
  /\ fatal = Nil
  /\ hasPreStart /\ pend["hook"] # None

\* the sends startContainer has completed
StartSends == {j \in 1..Len(sentLog) : sentLog[j][1] = "start"}
\* PreStartProcess, PostStartProcess has returned an error
PreFailed == pend["start"] = ErrPreStart \/ ErrPreStart \in SentBy("start")
PostFailed == pend["start"] = ErrPostStart \/ ErrPostStart \in SentBy("start")
\* each hook is called at most once, PostStartProcess only after
\* PreStartProcess has returned without error, and startContainer sends at
\* most one error
HooksInOrder ==
  /\ preCalls <= 1 /\ postCalls <= 1
  /\ preCalls = 1 => hasPreStart
  /\ (postCalls = 1 /\ hasPreStart) =>
       (preCalls = 1 /\ startPc \notin {"precall", "prestart"})
  /\ PreFailed => (preCalls = 1 /\ postCalls = 0 /\ startPc \in {"send", "done"})
  /\ PostFailed => (postCalls = 1 /\ startPc \in {"send", "done"})
  /\ Cardinality(StartSends) <= 1
  /\ startPc = "send" => (pend["start"] # None /\ StartSends = {})
  /\ startPc = "done" => pend["start"] = None

\* C28 as stated: the hooks are called at most once and in order, and an
\* error returned by PreStartProcess or by PostStartProcess is sent on the
\* fatal channel, exactly one error.
C28_Original ==
  /\ []HooksInOrder
  /\ PreFailed ~> (SentBy("start") = {ErrPreStart})
  /\ PostFailed ~> (SentBy("start") = {ErrPostStart})

\* C28: the hooks are called at most once, PostStartProcess never before
\* PreStartProcess has returned and never after it returned an error; after
\* an error of either hook startContainer does nothing but the one send of
\* 'pre start process failed' or 'post start process failed', which waits
\* for room in the fatal channel and is not made once the master has exited.
C28_HooksOnceInOrder ==
  /\ HooksInOrder
  /\ (PreFailed /\ startPc = "send") => pend["start"] = ErrPreStart
  /\ (PreFailed /\ startPc = "done") => SentBy("start") = {ErrPreStart}
  /\ (PostFailed /\ startPc = "send") => pend["start"] = ErrPostStart
  /\ (PostFailed /\ startPc = "done") => SentBy("start") = {ErrPostStart}

\* the master has exited while the send of 'pre start process failed' was
\* still waiting: the hook's own error filled the channel after the master
\* had received the monitor's value
C28_Witness ==
  /\ mainPc = "done"
  /\ startPc = "send" /\ pend["start"] = ErrPreStart
  /\ preCalls = 1 /\ postCalls = 0
  /\ ErrHook \in SentBy("hook")
  /\ fatalChan = <<ErrHook>>

\* C29: at every attempt of Open's polling loop the quantity compared with
\* the 25.5 s cap, delaySoFar, is the total time slept so far in the loop:
\* 0 at the first attempt, 100 ms at the second, 300 ms at the third.
C29_DelaySoFarIsSlept ==
  \A p \in Procs :
    cproc[p].pc = "o_poll" =>
      DelaySoFar(cproc[p].attempt) = <<cproc[p].slept, 0>>

\* what a step of call p may do to an EncryptFilesystem: it returns a path
\* exactly when it returns no error, and only from a mapper close that
\* succeeded; the close is started only by a copy that succeeded, the copy
\* only by an Open that found its mapper node, the Open only by a luksFormat
\* that succeeded on an attached loop device; a return ends the call
EncryptInOrder(p) ==
  LET a == cproc[p]
      b == cproc'[p]
  IN /\ (b.op = "Encrypt" /\ b.pc = "done" /\ a.pc # "done") =>
          /\ b.retName # "" <=> b.err = Nil
          /\ b.err \notin {Nil, None} => b.retName = ""
          /\ b.retName # "" =>
               /\ a.pc = "e_closewait" /\ a.exec = "close"
               /\ a.arg \in activeMappers /\ a.arg \notin activeMappers'
     /\ (b.pc = "e_closewait" /\ a.pc # "e_closewait") =>
          (a.pc = "e_copy" /\ b.arg = a.arg)
     /\ (b.pc = "e_copy" /\ a.pc # "e_copy") =>
          /\ a.pc = "o_poll" /\ a.nested
          /\ a.name \in mapperNodes /\ b.arg = a.name
     /\ (b.nested /\ ~a.nested) =>
          (a.pc = "e_fmtwait" /\ a.exec = "luksFormat" /\ a.loop)
     /\ a.pc = "done" => b = a

\* C31: EncryptFilesystem returns a non-empty path if and only if it returns
\* no error, and only after luksFormat, Open, the copy and the mapper close
\* have succeeded in that order; a step that fails returns the empty path
\* with its error and nothing of the call runs after it.
C31_PathOnlyAfterAllSteps == [][\A p \in Procs : EncryptInOrder(p)]_vars

\* one EncryptFilesystem has returned its path with its mapper closed, and
\* another one has returned the empty path on a failed copy
C31_Witness ==
  \E p, q \in Procs :
    /\ cproc[p].op = "Encrypt" /\ cproc[p].pc = "done"
    /\ cproc[p].retName = "crypt-file" /\ cproc[p].err = Nil
    /\ cproc[q].op = "Encrypt" /\ cproc[q].pc = "done"
    /\ cproc[q].retName = "" /\ cproc[q].err = ErrCopy

====
